---- MODULE Spec2Model ----
(***************************************************************************)
(* A model of gremllm/schema: the HTML-to-Markdown converter               *)
(* (internal/converter: ProcessHTML, HTMLToMarkdown, CondenseMarkdown) and *)
(* the result cache of the HTTP middleware (internal/middleware).          *)
(*                                                                         *)
(* Text is a sequence of one-character strings, so that the string         *)
(* operations of the source (Split, TrimSpace, Contains, the \n{3,}        *)
(* regexp, ...) are computed on characters as the code computes them.      *)
(* A DOM node is a record: [type |-> "text", data |-> chars] or            *)
(* [type |-> "element", data |-> tag, attr |-> <<[key, val]>>, kids |-> <<nodes>>] *)
(***************************************************************************)
EXTENDS Integers, Sequences, FiniteSets, TLC

(***************************************************************************)
(* strings package: the operations the converter calls.                    *)
(***************************************************************************)

\* the indices of s, in order, whose character is in chars (in) or is not (~in)
Indices(s, chars, in) ==
  SelectSeq([i \in 1..Len(s) |-> i], LAMBDA i : (s[i] \in chars) = in)

\* strings.TrimLeft(s, cutset)
TrimLeft(s, cut) ==
  LET rest == Indices(s, cut, FALSE)
  IN IF rest = <<>> THEN <<>> ELSE SubSeq(s, rest[1], Len(s))

\* strings.TrimRight(s, cutset)
TrimRight(s, cut) ==
  LET rest == Indices(s, cut, FALSE)
  IN IF rest = <<>> THEN <<>> ELSE SubSeq(s, 1, rest[Len(rest)])

\* unicode.IsSpace restricted to the characters of the model
SpaceChars == {" ", "\n", "\t", "\r"}

\* the backquote character, as a symbol of its own
Backtick == "bq"

TrimSpace(s) == TrimRight(TrimLeft(s, SpaceChars), SpaceChars)

HasPrefix(s, p) == Len(s) >= Len(p) /\ SubSeq(s, 1, Len(p)) = p

Contains(s, p) == \E i \in 1..(Len(s) - Len(p) + 1) : SubSeq(s, i, i + Len(p) - 1) = p

\* strings.ToLower on the letters of the model's alphabet
LowerChar(c) ==
  CASE c = "P" -> "p"
    [] c = "Â" -> "â"
    [] c = "C" -> "c"
    [] c = "S" -> "s"
    [] c = "A" -> "a"
    [] OTHER -> c

ToLower(s) == [i \in 1..Len(s) |-> LowerChar(s[i])]

\* strings.Split(s, "\n"): always at least one (possibly empty) line
Split(s) ==
  LET nl == Indices(s, {"\n"}, TRUE)
      from(k) == IF k = 1 THEN 1 ELSE nl[k - 1] + 1
      to(k) == IF k > Len(nl) THEN Len(s) ELSE nl[k] - 1
  IN [k \in 1..(Len(nl) + 1) |-> SubSeq(s, from(k), to(k))]

\* strings.Join(lines, sep)
RECURSIVE Join(_, _)
Join(lines, sep) ==
  IF lines = <<>> THEN <<>>
  ELSE IF Len(lines) = 1 THEN lines[1]
  ELSE lines[1] \o sep \o Join(Tail(lines), sep)

\* strings.ReplaceAll(text, "\n", " ")
ReplaceNewlines(s) == [i \in 1..Len(s) |-> IF s[i] = "\n" THEN " " ELSE s[i]]

\* strings.Repeat("  ", count) for count >= 0 (a negative count panics)
RECURSIVE Repeat(_, _)
Repeat(s, count) == IF count <= 0 THEN <<>> ELSE s \o Repeat(s, count - 1)

(***************************************************************************)
(* CondenseMarkdown and its helpers                                        *)
(***************************************************************************)

\* noisePatterns: the fourth is written with the two characters U+00C2 U+00A9
noisePatterns ==
  { <<"p","h","o","t","o"," ","b","y">>,
    <<"c","r","e","d","i","t",":">>,
    <<"s","o","u","r","c","e",":">>,
    <<"Â", "©">>,
    <<"c","o","p","y","r","i","g","h","t">>,
    <<"a","l","l"," ","r","i","g","h","t","s"," ","r","e","s","e","r","v","e","d">> }

\* the body of removeNoiseLines' loop: is this line dropped
IsNoiseLine(line) ==
  LET lower == ToLower(TrimSpace(line))
  IN lower # <<>> /\ \E pattern \in noisePatterns : Contains(lower, pattern)

removeNoiseLines(lines) == SelectSeq(lines, LAMBDA line : ~IsNoiseLine(line))

Digits == {"0", "1", "2", "3", "4", "5", "6", "7", "8", "9"}

\* len(s) in bytes: the characters of the model are of one byte, but for these of two
ByteLen(s) == Len(s) + Cardinality({i \in 1..Len(s) : s[i] \in {"©", "Â", "â"}})

\* isStandaloneNumber without the test of the length
isStandaloneNumberAnyLength(s0) ==
  LET s == TrimSpace(s0)
  IN ByteLen(s) # 0 /\ \A i \in 1..Len(s) : s[i] \in Digits

isStandaloneNumber(s0) ==
  LET s == TrimSpace(s0)
  IN ~(ByteLen(s) = 0 \/ ByteLen(s) > 2) /\ \A i \in 1..Len(s) : s[i] \in Digits

\* "Skip empty lines": the first index >= i of a line that is not blank
RECURSIVE SkipEmpty(_, _)
SkipEmpty(lines, i) ==
  IF i <= Len(lines) /\ TrimSpace(lines[i]) = <<>> THEN SkipEmpty(lines, i + 1) ELSE i

\* "Collect content until next number or heading": [i, parts] when the loop ends
RECURSIVE CollectParts(_, _, _)
CollectParts(lines, i, parts) ==
  IF i > Len(lines) THEN [i |-> i, parts |-> parts]
  ELSE LET next == TrimSpace(lines[i]) IN
    IF next = <<>> THEN
      LET j == SkipEmpty(lines, i + 1) IN
        IF j <= Len(lines)
        THEN LET peek == TrimSpace(lines[j]) IN
               IF isStandaloneNumber(peek) \/ HasPrefix(peek, <<"#">>)
               THEN [i |-> i, parts |-> parts]
               ELSE CollectParts(lines, i + 1, parts)
        ELSE [i |-> i, parts |-> parts]
    ELSE IF isStandaloneNumber(next) \/ HasPrefix(next, <<"#">>)
    THEN [i |-> i, parts |-> parts]
    ELSE CollectParts(lines, i + 1, Append(parts, next))

RECURSIVE FixFrom(_, _)
FixFrom(lines, i) ==
  IF i > Len(lines) THEN <<>>
  ELSE LET line == lines[i]
           trimmed == TrimSpace(line)
       IN IF isStandaloneNumber(trimmed)
          THEN LET c == CollectParts(lines, SkipEmpty(lines, i + 1), <<>>)
               IN IF Len(c.parts) > 0
                  THEN <<trimmed \o <<".", " ">> \o Join(c.parts, <<" ", "-", " ">>)>>
                         \o FixFrom(lines, c.i)
                  ELSE <<line>> \o FixFrom(lines, c.i)
          ELSE <<line>> \o FixFrom(lines, i + 1)

\* fixFragmentedLists that starts its loop at the second line
fixFragmentedListsFromSecond(lines) == FixFrom(lines, 2)

fixFragmentedLists(lines) == FixFrom(lines, 1)

\* multipleNewlines.ReplaceAllString(md, "\n\n"): leftmost-longest runs of 3+ newlines
\* of every run, the first two newlines stay and the third and later ones go
CollapseNewlines(s) ==
  LET third(i) == i >= 3 /\ s[i] = "\n" /\ s[i - 1] = "\n" /\ s[i - 2] = "\n"
      kept == SelectSeq([i \in 1..Len(s) |-> i], LAMBDA i : ~third(i))
  IN [k \in 1..Len(kept) |-> s[kept[k]]]

TrimLinesRight(lines) == [i \in 1..Len(lines) |-> TrimRight(lines[i], {" ", "\t"})]

CondenseMarkdown(md) ==
  LET lines == fixFragmentedLists(removeNoiseLines(Split(md)))
      md2 == CollapseNewlines(Join(lines, <<"\n">>))
      md3 == Join(TrimLinesRight(Split(md2)), <<"\n">>)
  IN TrimSpace(md3)

(***************************************************************************)
(* DOM nodes (golang.org/x/net/html Node) and the attribute helpers        *)
(***************************************************************************)

Text(chars) == [type |-> "text", data |-> chars]

Elem(tag, attr, kids) == [type |-> "element", data |-> tag, attr |-> attr, kids |-> kids]

Document(kids) == [type |-> "document", kids |-> kids]

Attr(key, val) == [key |-> key, val |-> val]

\* what html.Parse builds around the content of the body
Page(kids) ==
  Document(<<Elem("html", <<>>, <<Elem("head", <<>>, <<>>), Elem("body", <<>>, kids)>>)>>)

Kids(n) == IF n.type = "text" THEN <<>> ELSE n.kids

Attrs(n) == IF n.type = "element" THEN n.attr ELSE <<>>

KEEP == <<"k", "e", "e", "p">>

DROP == <<"d", "r", "o", "p">>

getAttr(n, key) ==
  LET hits == {i \in 1..Len(Attrs(n)) : n.attr[i].key = key}
  IN IF hits = {} THEN <<>>
     ELSE n.attr[CHOOSE i \in hits : \A j \in hits : i <= j].val

hasAttr(n, key, val) ==
  \E i \in 1..Len(Attrs(n)) : n.attr[i].key = key /\ n.attr[i].val = val

DigitChar(d) ==
  CASE d = 0 -> "0" [] d = 1 -> "1" [] d = 2 -> "2" [] d = 3 -> "3" [] d = 4 -> "4"
    [] d = 5 -> "5" [] d = 6 -> "6" [] d = 7 -> "7" [] d = 8 -> "8" [] d = 9 -> "9"

RECURSIVE DigitsOf(_)
DigitsOf(n) == IF n = 0 THEN <<>> ELSE DigitsOf(n \div 10) \o <<DigitChar(n % 10)>>

\* itoa, for the positive counters the list renderer passes
itoa(n) ==
  IF n < 10 THEN <<DigitChar(n)>>
  ELSE IF n < 100 THEN <<DigitChar(n \div 10), DigitChar(n % 10)>>
  ELSE DigitsOf(n)

(***************************************************************************)
(* ProcessHTML: ProcessScripts, ProcessImages, StripElements               *)
(***************************************************************************)

defaultStripElements ==
  <<"nav", "aside", "footer", "header", "script", "style", "noscript", "svg", "iframe">>

Range(seq) == {seq[i] : i \in 1..Len(seq)}

\* the place of a child that RemoveChild took out of its parent
Removed == [type |-> "removed"]

\* the node with its child list replaced, the removed children left out
WithKids(n, kids) == [n EXCEPT !.kids = SelectSeq(kids, LAMBDA c : c # Removed)]

JsDescription ==
  <<"J","a","v","a","s","c","r","i","p","t"," ","d","e","s","c","r","i","p","t","i","o","n",":"," ">>

\* the attribute loop of ProcessScripts: stops at data-llm="keep", the last
\* data-llm-description seen before that is the description
RECURSIVE ScriptScan(_, _, _)
ScriptScan(attr, i, description) ==
  IF i > Len(attr) THEN [shouldSkip |-> FALSE, description |-> description]
  ELSE IF attr[i].key = "data-llm" /\ attr[i].val = KEEP
       THEN [shouldSkip |-> TRUE, description |-> description]
  ELSE IF attr[i].key = "data-llm-description"
       THEN ScriptScan(attr, i + 1, attr[i].val)
  ELSE ScriptScan(attr, i + 1, description)

RECURSIVE ProcessScripts(_)
ProcessScripts(parent) ==
  LET one(c) ==
        CASE c.type = "text" -> c
          [] c.data = "script" ->
               LET s == ScriptScan(c.attr, 1, <<>>)
               IN IF ~s.shouldSkip /\ TrimSpace(s.description) # <<>>
                  THEN Text(JsDescription \o s.description)
                  ELSE c
          [] OTHER -> ProcessScripts(c)
  IN WithKids(parent, [i \in 1..Len(Kids(parent)) |-> one(Kids(parent)[i])])

ImagePrefix == <<"[", "I", "m", "a", "g", "e">>

ImageText(alt) ==
  IF alt # <<>> THEN ImagePrefix \o <<":", " ">> \o alt \o <<"]">> ELSE ImagePrefix \o <<"]">>

RECURSIVE ProcessImages(_, _)
ProcessImages(parent, removeIfNoAlt) ==
  LET one(c) ==
        CASE c.type = "text" -> c
          [] c.data = "img" ->
               LET altText == getAttr(c, "alt")
               IN IF altText = <<>> /\ removeIfNoAlt THEN Removed
                  ELSE Text(ImageText(altText))
          [] OTHER -> ProcessImages(c, removeIfNoAlt)
  IN WithKids(parent, [i \in 1..Len(Kids(parent)) |-> one(Kids(parent)[i])])

RECURSIVE StripElements(_, _)
StripElements(n, tagSet) ==
  LET one(c) ==
        CASE c.type = "text" -> c
          [] c.data \in tagSet -> IF hasAttr(c, "data-llm", KEEP) THEN c ELSE Removed
          [] hasAttr(c, "data-llm", DROP) -> Removed
          [] OTHER -> StripElements(c, tagSet)
  IN WithKids(n, [i \in 1..Len(Kids(n)) |-> one(Kids(n)[i])])

\* the tree ProcessHTML serializes (html.Render of this tree is its result)
ProcessHTML(doc, stripConfig) ==
  LET elementsToStrip == stripConfig.ElementsToStrip \o defaultStripElements
  IN StripElements(ProcessImages(ProcessScripts(doc), stripConfig.RemoveImagesNoAlt),
                   Range(elementsToStrip))

(***************************************************************************)
(* HTMLToMarkdown: the single-pass renderer (mdContext)                    *)
(***************************************************************************)

wrapTags ==
  { "h1", "h2", "h3", "h4", "h5", "h6", "p", "blockquote", "address", "strong", "b", "em", "i", "u", "s", "del", "ins", "mark", "small", "sub", "sup", "q", "kbd", "samp", "var", "dfn", "abbr", "cite", "table", "tr", "th", "td", "caption", "dl", "dt", "dd", "details", "summary", "time", "ruby", "rt", "rp" }

\* wrapRules with the rule of h1 for every tag
wrapRulesAllH1(tag) == [prefix |-> <<"\n", "#", " ">>, suffix |-> <<"\n", "\n">>]

wrapRules(tag) ==
  CASE tag = "h1" -> [prefix |-> <<"\n", "#", " ">>, suffix |-> <<"\n", "\n">>]
    [] tag = "h2" -> [prefix |-> <<"\n", "#", "#", " ">>, suffix |-> <<"\n", "\n">>]
    [] tag = "h3" -> [prefix |-> <<"\n", "#", "#", "#", " ">>, suffix |-> <<"\n", "\n">>]
    [] tag = "h4" -> [prefix |-> <<"\n", "#", "#", "#", "#", " ">>, suffix |-> <<"\n", "\n">>]
    [] tag = "h5" -> [prefix |-> <<"\n", "#", "#", "#", "#", "#", " ">>, suffix |-> <<"\n", "\n">>]
    [] tag = "h6" -> [prefix |-> <<"\n", "#", "#", "#", "#", "#", "#", " ">>, suffix |-> <<"\n", "\n">>]
    [] tag = "p" -> [prefix |-> <<>>, suffix |-> <<"\n", "\n">>]
    [] tag = "blockquote" -> [prefix |-> <<"\n", ">", " ">>, suffix |-> <<"\n", "\n">>]
    [] tag = "address" -> [prefix |-> <<"\n", ">", " ">>, suffix |-> <<"\n", "\n">>]
    [] tag = "strong" -> [prefix |-> <<" ", "*", "*">>, suffix |-> <<"*", "*", " ">>]
    [] tag = "b" -> [prefix |-> <<" ", "*", "*">>, suffix |-> <<"*", "*", " ">>]
    [] tag = "em" -> [prefix |-> <<" ", "*">>, suffix |-> <<"*", " ">>]
    [] tag = "i" -> [prefix |-> <<" ", "*">>, suffix |-> <<"*", " ">>]
    [] tag = "u" -> [prefix |-> <<" ", "_">>, suffix |-> <<"_", " ">>]
    [] tag = "s" -> [prefix |-> <<" ", "~", "~">>, suffix |-> <<"~", "~", " ">>]
    [] tag = "del" -> [prefix |-> <<" ", "~", "~">>, suffix |-> <<"~", "~", " ">>]
    [] tag = "ins" -> [prefix |-> <<" ", "_", "_">>, suffix |-> <<"_", "_", " ">>]
    [] tag = "mark" -> [prefix |-> <<" ", "=", "=">>, suffix |-> <<"=", "=", " ">>]
    [] tag = "small" -> [prefix |-> <<" ">>, suffix |-> <<" ">>]
    [] tag = "sub" -> [prefix |-> <<"~">>, suffix |-> <<"~">>]
    [] tag = "sup" -> [prefix |-> <<"^">>, suffix |-> <<"^">>]
    [] tag = "q" -> [prefix |-> <<" ", "\"">>, suffix |-> <<"\"", " ">>]
    [] tag = "kbd" -> [prefix |-> <<" ", Backtick>>, suffix |-> <<Backtick, " ">>]
    [] tag = "samp" -> [prefix |-> <<" ", Backtick>>, suffix |-> <<Backtick, " ">>]
    [] tag = "var" -> [prefix |-> <<" ", "_">>, suffix |-> <<"_", " ">>]
    [] tag = "dfn" -> [prefix |-> <<" ", "*">>, suffix |-> <<"*", " ">>]
    [] tag = "abbr" -> [prefix |-> <<>>, suffix |-> <<>>]
    [] tag = "cite" -> [prefix |-> <<" ", "*">>, suffix |-> <<"*", " ">>]
    [] tag = "table" -> [prefix |-> <<"\n">>, suffix |-> <<"\n">>]
    [] tag = "tr" -> [prefix |-> <<"|">>, suffix |-> <<"\n">>]
    [] tag = "th" -> [prefix |-> <<" ", "*", "*">>, suffix |-> <<"*", "*", " ", "|">>]
    [] tag = "td" -> [prefix |-> <<" ">>, suffix |-> <<" ", "|">>]
    [] tag = "caption" -> [prefix |-> <<"\n", "*">>, suffix |-> <<"*", "\n">>]
    [] tag = "dl" -> [prefix |-> <<"\n">>, suffix |-> <<"\n">>]
    [] tag = "dt" -> [prefix |-> <<"\n", "*", "*">>, suffix |-> <<"*", "*", "\n">>]
    [] tag = "dd" -> [prefix |-> <<":", " ">>, suffix |-> <<"\n">>]
    [] tag = "details" -> [prefix |-> <<"\n">>, suffix |-> <<"\n">>]
    [] tag = "summary" -> [prefix |-> <<"\n", "*", "*">>, suffix |-> <<"*", "*", "\n">>]
    [] tag = "time" -> [prefix |-> <<>>, suffix |-> <<>>]
    [] tag = "ruby" -> [prefix |-> <<>>, suffix |-> <<>>]
    [] tag = "rt" -> [prefix |-> <<" ", "(">>, suffix |-> <<")">>]
    [] tag = "rp" -> [prefix |-> <<>>, suffix |-> <<>>]

passThroughTags ==
  { "html", "head", "body", "div", "section", "article", "main", "header", "footer", "aside", "nav", "hgroup", "search", "span", "figure", "figcaption", "form", "fieldset", "legend", "label", "input", "button", "select", "optgroup", "option", "textarea", "output", "datalist", "meter", "progress", "thead", "tbody", "tfoot", "colgroup", "col", "picture", "source", "track", "map", "area", "meta", "title", "link", "base", "bdi", "bdo", "template", "data", "dialog", "center", "font", "big", "tt", "strike", "acronym", "dir" }

skipTags == { "canvas", "embed", "object", "param", "wbr" }

\* len(ctx.orderedListNums): make([]int, 10)
OrderedListNumsLen == 10

\* buf.WriteString; a panicking walk unwinds and writes nothing more
Write(ctx, s) == IF ctx.panicked THEN ctx ELSE [ctx EXCEPT !.buf = @ \o s]

Panic(ctx) == [ctx EXCEPT !.panicked = TRUE]

renderText(ctx, text) ==
  IF ctx.panicked THEN ctx
  ELSE IF ~ctx.inPre
       THEN LET t == TrimSpace(text)
            IN IF t = <<>> THEN ctx ELSE Write(ctx, ReplaceNewlines(t))
       ELSE Write(ctx, text)

\* renderImage that writes "[Image]" whatever RemoveImagesNoAlt says
renderImageAlways(ctx, n) == Write(ctx, ImageText(getAttr(n, "alt")))

renderImage(ctx, n) ==
  LET alt == getAttr(n, "alt")
  IN IF alt = <<>> /\ ctx.removeImgNoAlt THEN ctx ELSE Write(ctx, ImageText(alt))

MediaText(n) ==
  LET mediaType == IF n.data = "audio" THEN <<"A", "u", "d", "i", "o">>
                   ELSE IF n.data = "video" THEN <<"V", "i", "d", "e", "o">>
                   ELSE <<"M", "e", "d", "i", "a">>
      src == getAttr(n, "src")
  IN IF src # <<>> THEN <<"[">> \o mediaType \o <<":", " ">> \o src \o <<"]">>
     ELSE <<"[">> \o mediaType \o <<"]">>

\* renderList before it walks the children
ListEnter(ctx, ordered) ==
  LET c1 == [Write(ctx, <<"\n">>) EXCEPT !.listDepth = @ + 1,
                                         !.inOrderedList = Append(@, ordered)]
  IN IF ordered /\ c1.listDepth <= Len(c1.orderedListNums)
     THEN [c1 EXCEPT !.orderedListNums[c1.listDepth] = 0]
     ELSE c1

\* renderList after it walked the children
ListLeave(ctx) ==
  IF ctx.panicked THEN ctx
  ELSE Write([ctx EXCEPT !.inOrderedList = SubSeq(@, 1, Len(@) - 1),
                         !.listDepth = @ - 1], <<"\n">>)

\* renderListItem before it walks the children: strings.Repeat panics on a
\* negative count, the counter slice on an index beyond its length
ItemEnter(ctx) ==
  IF ctx.panicked THEN ctx
  ELSE IF ctx.listDepth - 1 < 0 THEN Panic(ctx)
  ELSE LET c1 == Write(ctx, Repeat(<<" ", " ">>, ctx.listDepth - 1))
       IN IF Len(c1.inOrderedList) > 0 /\ c1.inOrderedList[Len(c1.inOrderedList)]
          THEN IF c1.listDepth > Len(c1.orderedListNums) THEN Panic(c1)
               ELSE LET c2 == [c1 EXCEPT !.orderedListNums[c1.listDepth] = @ + 1]
                    IN Write(c2, itoa(c2.orderedListNums[c2.listDepth]) \o <<".", " ">>)
          ELSE Write(c1, <<"-", " ">>)

\* Branch with the wrap rules looked up before the strip set
BranchWrapFirst(ctx, n) ==
  CASE hasAttr(n, "data-llm", DROP) -> "drop"
    [] n.data \in wrapTags -> "wrap"
    [] n.data \in ctx.stripSet /\ ~hasAttr(n, "data-llm", KEEP) ->
         IF n.data = "script" /\ getAttr(n, "data-llm-description") # <<>>
         THEN "description" ELSE "strip"
    [] n.data \in skipTags -> "skip"
    [] n.data \in passThroughTags -> "children"
    [] n.data \in {"br", "hr", "code", "pre", "a", "img", "ol", "li"} -> n.data
    [] n.data \in {"ul", "menu"} -> "ul"
    [] n.data \in {"audio", "video"} -> "media"
    [] OTHER -> "children"

\* which branch of renderElement an element takes
Branch(ctx, n) ==
  CASE hasAttr(n, "data-llm", DROP) -> "drop"
    [] n.data \in ctx.stripSet /\ ~hasAttr(n, "data-llm", KEEP) ->
         IF n.data = "script" /\ getAttr(n, "data-llm-description") # <<>>
         THEN "description" ELSE "strip"
    [] n.data \in skipTags -> "skip"
    [] n.data \in wrapTags -> "wrap"
    [] n.data \in passThroughTags -> "children"
    [] n.data \in {"br", "hr", "code", "pre", "a", "img", "ol", "li"} -> n.data
    [] n.data \in {"ul", "menu"} -> "ul"
    [] n.data \in {"audio", "video"} -> "media"
    [] OTHER -> "children"

RECURSIVE walk(_, _)
RECURSIVE children(_, _, _)
RECURSIVE renderElement(_, _)

walk(ctx, n) ==
  CASE ctx.panicked -> ctx
    [] n.type = "text" -> renderText(ctx, n.data)
    [] n.type = "element" -> renderElement(ctx, n)
    [] n.type = "document" -> children(ctx, n, Len(Kids(n)))
    [] OTHER -> ctx

\* ctx.children(n), up to the i-th child
children(ctx, n, i) == IF i = 0 THEN ctx ELSE walk(children(ctx, n, i - 1), Kids(n)[i])

\* what renderElement does before it calls ctx.children(n), or all it does when
\* it does not call it
Enter(ctx, n) ==
  LET branch == Branch(ctx, n)
  IN CASE branch \in {"drop", "strip", "skip", "children"} -> ctx
       [] branch = "description" ->
            Write(ctx, <<"\n">> \o JsDescription \o getAttr(n, "data-llm-description")
                         \o <<"\n">>)
       [] branch = "wrap" -> Write(ctx, wrapRules(n.data).prefix)
       [] branch = "br" -> Write(ctx, <<"\n">>)
       [] branch = "hr" -> Write(ctx, <<"\n", "-", "-", "-", "\n", "\n">>)
       [] branch = "code" -> IF ctx.inPre THEN ctx ELSE Write(ctx, <<Backtick>>)
       [] branch = "pre" ->
            [Write(ctx, <<"\n", Backtick, Backtick, Backtick, "\n">>) EXCEPT !.inPre = TRUE]
       [] branch = "a" -> Write(ctx, <<"[">>)
       [] branch = "img" -> renderImage(ctx, n)
       [] branch = "ul" -> ListEnter(ctx, FALSE)
       [] branch = "ol" -> ListEnter(ctx, TRUE)
       [] branch = "li" -> ItemEnter(ctx)
       [] branch = "media" -> Write(ctx, MediaText(n))

\* the branches of renderElement that call ctx.children(n)
Walks(ctx, n) ==
  Branch(ctx, n) \in {"wrap", "children", "code", "pre", "a", "ul", "ol", "li", "media"}

\* what renderElement does after ctx.children(n) returned with c; ctx is the
\* context renderElement was called with
Leave(ctx, c, n) ==
  LET branch == Branch(ctx, n)
  IN CASE branch = "wrap" -> Write(c, wrapRules(n.data).suffix)
       [] branch = "code" -> IF ctx.inPre THEN c ELSE Write(c, <<Backtick>>)
       [] branch = "pre" ->
            IF c.panicked THEN c
            ELSE Write([c EXCEPT !.inPre = FALSE],
                       <<"\n", Backtick, Backtick, Backtick, "\n", "\n">>)
       [] branch = "a" -> Write(c, <<"]", "(">> \o getAttr(n, "href") \o <<")">>)
       [] branch \in {"ul", "ol"} -> ListLeave(c)
       [] branch = "li" -> Write(c, <<"\n">>)
       [] OTHER -> c

\* a panic in ctx.children(n) unwinds through renderElement
renderElement(ctx, n) ==
  IF Walks(ctx, n)
  THEN LET c == children(Enter(ctx, n), n, Len(Kids(n)))
       IN IF c.panicked THEN c ELSE Leave(ctx, c, n)
  ELSE Enter(ctx, n)

\* html.Parse's result for input the parser gives up on
Unparseable == [type |-> "unparseable"]

\* NewContext without the caller's ElementsToStrip
NewContextDefaultsOnly(stripConfig, buf) ==
  [ buf |-> buf,
    stripSet |-> Range(defaultStripElements),
    removeImgNoAlt |-> stripConfig.RemoveImagesNoAlt,
    inPre |-> FALSE,
    listDepth |-> 0,
    orderedListNums |-> [i \in 1..OrderedListNumsLen |-> 0],
    inOrderedList |-> <<>>,
    panicked |-> FALSE ]

\* the strip set and the mdContext HTMLToMarkdown starts the walk with
NewContext(stripConfig, buf) ==
  [ buf |-> buf,
    stripSet |-> Range(defaultStripElements) \cup Range(stripConfig.ElementsToStrip),
    removeImgNoAlt |-> stripConfig.RemoveImagesNoAlt,
    inPre |-> FALSE,
    listDepth |-> 0,
    orderedListNums |-> [i \in 1..OrderedListNumsLen |-> 0],
    inOrderedList |-> <<>>,
    panicked |-> FALSE ]

\* ctx.walk(doc) on the buffer getBuffer returned: the context when the walk ends
RunWalk(doc, stripConfig, buf) == walk(NewContext(stripConfig, buf), doc)

\* what HTMLToMarkdown returns after that walk:
\* outcome "ok" with the text, or "panic"
Finished(ctx) ==
  IF ctx.panicked THEN [outcome |-> "panic", text |-> <<>>]
  ELSE [outcome |-> "ok", text |-> CondenseMarkdown(ctx.buf)]

ParseError == [outcome |-> "error", text |-> <<>>]

\* getBuffer without the Reset
getBufferNoReset(pooled) == pooled

\* getBuffer on the builder bufPool.Get() returned: buf.Reset()
getBuffer(pooled) == <<>>

\* HTMLToMarkdown with a builder of the pool whose content is pooled
ConvertWith(doc, stripConfig, pooled) ==
  IF doc = Unparseable THEN ParseError
  ELSE Finished(RunWalk(doc, stripConfig, getBuffer(pooled)))

\* HTMLToMarkdown with a new builder
HTMLToMarkdown(doc, stripConfig) == ConvertWith(doc, stripConfig, <<>>)

(***************************************************************************)
(* The FFI export: Convert                                                 *)
(***************************************************************************)

\* adjacent text nodes of a child list come back from the parser as one
RECURSIVE MergeTexts(_)
MergeTexts(kids) ==
  IF Len(kids) < 2 THEN kids
  ELSE LET rest == MergeTexts(Tail(kids))
       IN IF Head(kids).type = "text" /\ Head(rest).type = "text"
          THEN <<Text(Head(kids).data \o Head(rest).data)>> \o Tail(rest)
          ELSE <<Head(kids)>> \o rest

\* html.Render in ProcessHTML, then html.Parse in HTMLToMarkdown: elements and
\* attributes come back as they were, the character data between two tags
\* as one text node
RECURSIVE Reparse(_)
Reparse(n) ==
  IF n.type = "text" THEN n
  ELSE [n EXCEPT !.kids = MergeTexts([i \in 1..Len(n.kids) |-> Reparse(n.kids[i])])]

\* Convert returned its input
InputReturned == [outcome |-> "input", text |-> <<>>]

\* Convert: ProcessHTML, then HTMLToMarkdown on the bytes it returned;
\* the StripConfig carries ElementsToStrip only
Convert(doc, goElementsToStrip) ==
  LET stripConfig == [ElementsToStrip |-> goElementsToStrip, RemoveImagesNoAlt |-> FALSE]
  IN IF doc = Unparseable THEN InputReturned
     ELSE HTMLToMarkdown(Reparse(ProcessHTML(doc, stripConfig)), stripConfig)

(***************************************************************************)
(* The middleware: GremllmMiddleware and its result cache                  *)
(***************************************************************************)

\* maxCacheSize (1000 in the source), scaled down so that the cache fills
maxCacheSize == 2

\* cacheTTL (5 minutes in the source), in ticks of the model's clock
cacheTTL == 1

\* the model's clock stops here
MaxTime == 2

\* the goroutines serving requests
Procs == {"p1", "p2"}

None == "none"

\* md5 digests: one more than the cache holds
Digests == 1..(maxCacheSize + 1)

\* response bodies the wrapped handler serves: body 0 is one html.Parse gives up
\* on, the others are pages
Bodies == 0..(maxCacheSize + 1)

Letter(k) == CASE k = 1 -> "a" [] k = 2 -> "b" [] k = 3 -> "c" [] k = 4 -> "d" [] OTHER -> "e"

BodyDoc(b) ==
  IF b = 0 THEN Unparseable
  ELSE Page(<<Elem("h1", <<>>, <<Text(<<Letter(b)>>)>>)>>)

\* hashContent: a digest is shorter than the content, two bodies share one
hashContent(b) == (b % (maxCacheSize + 1)) + 1

\* the requests the model serves: with or without ?gremllm, and what the
\* wrapped handler answers
Requests ==
  {[gremllm |-> FALSE, status |-> 200, ctype |-> "text/html", body |-> 1],
   [gremllm |-> TRUE, status |-> 404, ctype |-> "text/html", body |-> 1],
   [gremllm |-> TRUE, status |-> 200, ctype |-> "application/json", body |-> 1]}
  \cup {[gremllm |-> TRUE, status |-> 200, ctype |-> "text/html", body |-> b] : b \in Bodies}

NoRequest == [gremllm |-> FALSE, status |-> 0, ctype |-> "", body |-> 0]

NoEntry == [found |-> FALSE, content |-> <<>>, timestamp |-> 0]

NoResponse == [status |-> 0, ctype |-> "", body |-> <<>>]

NeverStored == [st |-> "never", content |-> <<>>, timestamp |-> 0]

Evicted == [st |-> "evicted", content |-> <<>>, timestamp |-> 0]

VARIABLES
  cache,       \* the map: digest -> [content, timestamp], on the digests stored
  cacheOrder,  \* the insertion-order slice
  cacheMu,     \* the RWMutex: [readers |-> how many hold RLock, writer |-> who called Lock]
  now,         \* the clock
  pc,          \* where each goroutine is in the handler
  req,         \* the request it serves
  entry,       \* its local copy of the cache entry: entry, found := cache[cacheKey]
  markdown,    \* its local markdown
  hit,         \* it took the branch of line 120-121
  converted,   \* it called converter.HTMLToMarkdown for this request
  response,    \* what it wrote to the client
  stored,      \* history: per digest the last store, or that it was evicted since
  seen,        \* history: stored[cacheKey] when the goroutine read the map
  atLock,      \* history: the map's keys and the slice when the writer got the lock
  \* a caller of the converter package
  rdoc,        \* the parsed input document
  rcfg,        \* the StripConfig
  rpc,         \* what the caller has called so far
  rout,        \* what HTMLToMarkdown returned
  rproc,       \* the tree ProcessHTML serialized
  rconv,       \* what Convert returned
  \* a caller of CondenseMarkdown
  ctext,       \* the input text
  cpc,         \* how often it was condensed
  cout1,       \* CondenseMarkdown(ctext)
  cout2,       \* CondenseMarkdown(cout1)
  \* goroutines converting with builders of bufPool
  pool,        \* the builders in the pool
  builder,     \* the content of each builder made so far
  gpc,         \* where each goroutine is in HTMLToMarkdown
  gin,         \* its arguments
  gbuf,        \* the builder it got
  gout,        \* what its call returned
  results      \* history: every (arguments, result) a call returned

cacheVars ==
  <<cache, cacheOrder, cacheMu, now, pc, req, entry, markdown, hit, converted, response,
    stored, seen, atLock>>

renderVars == <<rdoc, rcfg, rpc, rout, rproc, rconv>>

condVars == <<ctext, cpc, cout1, cout2>>

poolVars == <<pool, builder, gpc, gin, gbuf, gout, results>>

vars == <<cacheVars, renderVars, condVars, poolVars>>

NoResult == [outcome |-> "none", text |-> <<>>]

NoConfig == [ElementsToStrip |-> <<>>, RemoveImagesNoAlt |-> FALSE]

\* the parts of the state a specification does not use
CacheIdle ==
  /\ cache = <<>>
  /\ cacheOrder = <<>>
  /\ cacheMu = [readers |-> 0, writer |-> "none"]
  /\ now = 0
  /\ pc = <<>>
  /\ req = <<>>
  /\ entry = <<>>
  /\ markdown = <<>>
  /\ hit = <<>>
  /\ converted = <<>>
  /\ response = <<>>
  /\ stored = <<>>
  /\ seen = <<>>
  /\ atLock = [keys |-> {}, order |-> <<>>]

RenderIdle ==
  /\ rdoc = Document(<<>>)
  /\ rcfg = NoConfig
  /\ rpc = "idle"
  /\ rout = NoResult
  /\ rproc = Document(<<>>)
  /\ rconv = NoResult

CondIdle ==
  /\ ctext = <<>>
  /\ cpc = "idle"
  /\ cout1 = <<>>
  /\ cout2 = <<>>

PoolIdle ==
  /\ pool = {}
  /\ builder = <<>>
  /\ gpc = <<>>
  /\ gin = <<>>
  /\ gbuf = <<>>
  /\ gout = <<>>
  /\ results = {}

cacheKey(p) == hashContent(req[p].body)

\* Fresh with the boundary on the wrong side
FreshAtBoundary(e, t) == e.found /\ t - e.timestamp <= cacheTTL

\* time.Since(entry.timestamp) < cacheTTL, with found
Fresh(e, t) == e.found /\ t - e.timestamp < cacheTTL

\* evictOldest that removes nothing
evictOldestNone(c, o, n) == [cache |-> c, order |-> o]

\* evictOldest(n) on the map c and the slice o
evictOldest(c, o, n) ==
  IF n <= 0 \/ Len(o) = 0 THEN [cache |-> c, order |-> o]
  ELSE LET m == IF n > Len(o) THEN Len(o) ELSE n
           gone == {o[i] : i \in 1..m}
       IN [cache |-> [d \in (DOMAIN c) \ gone |-> c[d]], order |-> SubSeq(o, m + 1, Len(o))]

InWrite(p) == pc[p] \in {"evict", "store", "unlock"}

CacheInit ==
  /\ cache = <<>>
  /\ cacheOrder = <<>>
  /\ cacheMu = [readers |-> 0, writer |-> None]
  /\ now = 0
  /\ pc = [p \in Procs |-> "idle"]
  /\ req = [p \in Procs |-> NoRequest]
  /\ entry = [p \in Procs |-> NoEntry]
  /\ markdown = [p \in Procs |-> <<>>]
  /\ hit = [p \in Procs |-> FALSE]
  /\ converted = [p \in Procs |-> FALSE]
  /\ response = [p \in Procs |-> NoResponse]
  /\ stored = [d \in Digests |-> NeverStored]
  /\ seen = [p \in Procs |-> NeverStored]
  /\ atLock = [keys |-> {}, order |-> <<>>]
  /\ RenderIdle /\ CondIdle /\ PoolIdle

\* Serve that passes through only the requests without ?gremllm
ServeConvertsAll(p, r) ==
  /\ pc[p] = "idle"
  /\ req' = [req EXCEPT ![p] = r]
  /\ IF r.gremllm
     THEN /\ pc' = [pc EXCEPT ![p] = "rlock"]
          /\ response' = [response EXCEPT ![p] = NoResponse]
     ELSE /\ pc' = [pc EXCEPT ![p] = "idle"]
          /\ response' = [response EXCEPT ![p] =
               [status |-> r.status, ctype |-> r.ctype, body |-> <<"raw", r.body>>]]
  /\ UNCHANGED <<cache, cacheOrder, cacheMu, now, entry, markdown, hit, converted,
                 stored, seen, atLock>>
  /\ UNCHANGED <<renderVars, condVars, poolVars>>

\* lines 82-109: a request arrives, next.ServeHTTP answers; without ?gremllm, with a
\* status other than 200 or a content type other than text/html it is passed through
Serve(p, r) ==
  /\ pc[p] = "idle"
  /\ req' = [req EXCEPT ![p] = r]
  /\ IF r.gremllm /\ r.status = 200 /\ r.ctype = "text/html"
     THEN /\ pc' = [pc EXCEPT ![p] = "rlock"]
          /\ response' = [response EXCEPT ![p] = NoResponse]
     ELSE /\ pc' = [pc EXCEPT ![p] = "idle"]
          /\ response' = [response EXCEPT ![p] =
               [status |-> r.status, ctype |-> r.ctype, body |-> <<"raw", r.body>>]]
  /\ UNCHANGED <<cache, cacheOrder, cacheMu, now, entry, markdown, hit, converted,
                 stored, seen, atLock>>
  /\ UNCHANGED <<renderVars, condVars, poolVars>>

\* cache[cacheKey] as the reader copies it
Lookup(c, k) ==
  IF k \in DOMAIN c
  THEN [found |-> TRUE, content |-> c[k].content, timestamp |-> c[k].timestamp]
  ELSE NoEntry

\* lines 115-116: cacheMu.RLock() waits while a writer holds or has asked for the
\* lock; then entry, found := cache[cacheKey]
RLock(p) ==
  /\ pc[p] = "rlock"
  /\ cacheMu.writer = None
  /\ cacheMu' = [cacheMu EXCEPT !.readers = @ + 1]
  /\ entry' = [entry EXCEPT ![p] = Lookup(cache, cacheKey(p))]
  /\ seen' = [seen EXCEPT ![p] = stored[cacheKey(p)]]
  /\ pc' = [pc EXCEPT ![p] = "runlock"]
  /\ UNCHANGED <<cache, cacheOrder, now, req, markdown, hit, converted, response,
                 stored, atLock>>
  /\ UNCHANGED <<renderVars, condVars, poolVars>>

\* line 117: cacheMu.RUnlock()
RUnlock(p) ==
  /\ pc[p] = "runlock"
  /\ cacheMu' = [cacheMu EXCEPT !.readers = @ - 1]
  /\ pc' = [pc EXCEPT ![p] = "check"]
  /\ UNCHANGED <<cache, cacheOrder, now, req, entry, markdown, hit, converted, response,
                 stored, seen, atLock>>
  /\ UNCHANGED <<renderVars, condVars, poolVars>>

\* the goroutine's locals once its request is answered
Finish(p) ==
  /\ pc' = [pc EXCEPT ![p] = "idle"]
  /\ req' = [req EXCEPT ![p] = NoRequest]
  /\ entry' = [entry EXCEPT ![p] = NoEntry]
  /\ markdown' = [markdown EXCEPT ![p] = <<>>]
  /\ hit' = [hit EXCEPT ![p] = FALSE]
  /\ converted' = [converted EXCEPT ![p] = FALSE]
  /\ seen' = [seen EXCEPT ![p] = NeverStored]

\* lines 119-129: the hit test; on a miss the conversion, whose error is answered
\* with 500 and whose panic ends the handler with nothing written
Check(p) ==
  /\ pc[p] = "check"
  /\ IF Fresh(entry[p], now)
     THEN /\ markdown' = [markdown EXCEPT ![p] = entry[p].content]
          /\ hit' = [hit EXCEPT ![p] = TRUE]
          /\ pc' = [pc EXCEPT ![p] = "respond"]
          /\ UNCHANGED <<req, entry, converted, response, seen>>
     ELSE LET r == HTMLToMarkdown(BodyDoc(req[p].body),
                                  [ElementsToStrip |-> <<>>, RemoveImagesNoAlt |-> FALSE])
          IN IF r.outcome = "ok"
             THEN /\ markdown' = [markdown EXCEPT ![p] = r.text]
                  /\ converted' = [converted EXCEPT ![p] = TRUE]
                  /\ pc' = [pc EXCEPT ![p] = "lock"]
                  /\ UNCHANGED <<req, entry, hit, response, seen>>
             ELSE /\ Finish(p)
                  /\ response' = [response EXCEPT ![p] =
                       IF r.outcome = "error"
                       THEN [status |-> 500, ctype |-> "text/plain", body |-> <<"error">>]
                       ELSE NoResponse]
  /\ UNCHANGED <<cache, cacheOrder, cacheMu, now, stored, atLock>>
  /\ UNCHANGED <<renderVars, condVars, poolVars>>

\* line 132: cacheMu.Lock() first excludes the other writers and keeps new readers out
Lock(p) ==
  /\ pc[p] = "lock"
  /\ cacheMu.writer = None
  /\ cacheMu' = [cacheMu EXCEPT !.writer = p]
  /\ pc' = [pc EXCEPT ![p] = "lockwait"]
  /\ UNCHANGED <<cache, cacheOrder, now, req, entry, markdown, hit, converted, response,
                 stored, seen, atLock>>
  /\ UNCHANGED <<renderVars, condVars, poolVars>>

\* LockAcquire that does not wait for the readers
LockAcquireNoWait(p) ==
  /\ pc[p] = "lockwait"
  /\ pc' = [pc EXCEPT ![p] = "evict"]
  /\ atLock' = [keys |-> DOMAIN cache, order |-> cacheOrder]
  /\ UNCHANGED <<cache, cacheOrder, cacheMu, now, req, entry, markdown, hit, converted,
                 response, stored, seen>>
  /\ UNCHANGED <<renderVars, condVars, poolVars>>

\* line 132: then Lock() returns once the readers have left
LockAcquire(p) ==
  /\ pc[p] = "lockwait"
  /\ cacheMu.readers = 0
  /\ pc' = [pc EXCEPT ![p] = "evict"]
  /\ atLock' = [keys |-> DOMAIN cache, order |-> cacheOrder]
  /\ UNCHANGED <<cache, cacheOrder, cacheMu, now, req, entry, markdown, hit, converted,
                 response, stored, seen>>
  /\ UNCHANGED <<renderVars, condVars, poolVars>>

\* Evict that appends the digest without the test of exists
EvictAppendAlways(p) ==
  /\ pc[p] = "evict"
  /\ LET e == IF Cardinality(DOMAIN cache) >= maxCacheSize
              THEN evictOldest(cache, cacheOrder, 1)
              ELSE [cache |-> cache, order |-> cacheOrder]
     IN /\ cache' = e.cache
        /\ cacheOrder' = Append(e.order, cacheKey(p))
        /\ stored' = [d \in Digests |->
             IF d \in DOMAIN cache /\ d \notin DOMAIN e.cache THEN Evicted ELSE stored[d]]
  /\ pc' = [pc EXCEPT ![p] = "store"]
  /\ UNCHANGED <<cacheMu, now, req, entry, markdown, hit, converted, response, seen, atLock>>
  /\ UNCHANGED <<renderVars, condVars, poolVars>>

\* lines 134-142: if len(cache) >= maxCacheSize { evictOldest(1) }, then
\* if _, exists := cache[cacheKey]; !exists { cacheOrder = append(cacheOrder, cacheKey) }
Evict(p) ==
  /\ pc[p] = "evict"
  /\ LET e == IF Cardinality(DOMAIN cache) >= maxCacheSize
              THEN evictOldest(cache, cacheOrder, 1)
              ELSE [cache |-> cache, order |-> cacheOrder]
     IN /\ cache' = e.cache
        /\ cacheOrder' = IF cacheKey(p) \notin DOMAIN e.cache
                         THEN Append(e.order, cacheKey(p)) ELSE e.order
        /\ stored' = [d \in Digests |->
             IF d \in DOMAIN cache /\ d \notin DOMAIN e.cache THEN Evicted ELSE stored[d]]
  /\ pc' = [pc EXCEPT ![p] = "store"]
  /\ UNCHANGED <<cacheMu, now, req, entry, markdown, hit, converted, response, seen, atLock>>
  /\ UNCHANGED <<renderVars, condVars, poolVars>>

\* Store with a timestamp a time-to-live in the past
StoreBackdated(p) ==
  /\ pc[p] = "store"
  /\ cache' = (cacheKey(p) :> [content |-> markdown[p], timestamp |-> now - cacheTTL]) @@ cache
  /\ stored' = [stored EXCEPT ![cacheKey(p)] =
       [st |-> "stored", content |-> markdown[p], timestamp |-> now]]
  /\ pc' = [pc EXCEPT ![p] = "unlock"]
  /\ UNCHANGED <<cacheOrder, cacheMu, now, req, entry, markdown, hit, converted, response,
                 seen, atLock>>
  /\ UNCHANGED <<renderVars, condVars, poolVars>>

\* line 143: cache[cacheKey] = cacheEntry{content: markdown, timestamp: time.Now()}
Store(p) ==
  /\ pc[p] = "store"
  /\ cache' = (cacheKey(p) :> [content |-> markdown[p], timestamp |-> now]) @@ cache
  /\ stored' = [stored EXCEPT ![cacheKey(p)] =
       [st |-> "stored", content |-> markdown[p], timestamp |-> now]]
  /\ pc' = [pc EXCEPT ![p] = "unlock"]
  /\ UNCHANGED <<cacheOrder, cacheMu, now, req, entry, markdown, hit, converted, response,
                 seen, atLock>>
  /\ UNCHANGED <<renderVars, condVars, poolVars>>

\* line 144: cacheMu.Unlock()
Unlock(p) ==
  /\ pc[p] = "unlock"
  /\ cacheMu' = [cacheMu EXCEPT !.writer = None]
  /\ atLock' = [keys |-> {}, order |-> <<>>]
  /\ pc' = [pc EXCEPT ![p] = "respond"]
  /\ UNCHANGED <<cache, cacheOrder, now, req, entry, markdown, hit, converted, response,
                 stored, seen>>
  /\ UNCHANGED <<renderVars, condVars, poolVars>>

\* Respond that renews the timestamp of the entry it answers from
RespondTouch(p) ==
  /\ pc[p] = "respond"
  /\ response' = [response EXCEPT ![p] =
       [status |-> req[p].status, ctype |-> "text/markdown; charset=utf-8",
        body |-> markdown[p]]]
  /\ Finish(p)
  /\ cache' = IF hit[p] /\ cacheKey(p) \in DOMAIN cache
              THEN [cache EXCEPT ![cacheKey(p)].timestamp = now] ELSE cache
  /\ UNCHANGED <<cacheOrder, cacheMu, now, stored, atLock>>
  /\ UNCHANGED <<renderVars, condVars, poolVars>>

\* lines 147-150: the markdown is written to the client
Respond(p) ==
  /\ pc[p] = "respond"
  /\ response' = [response EXCEPT ![p] =
       [status |-> req[p].status, ctype |-> "text/markdown; charset=utf-8",
        body |-> markdown[p]]]
  /\ Finish(p)
  /\ UNCHANGED <<cache, cacheOrder, cacheMu, now, stored, atLock>>
  /\ UNCHANGED <<renderVars, condVars, poolVars>>

\* time passes
Tick ==
  /\ now < MaxTime
  /\ now' = now + 1
  /\ UNCHANGED <<cache, cacheOrder, cacheMu, pc, req, entry, markdown, hit, converted,
                 response, stored, seen, atLock>>
  /\ UNCHANGED <<renderVars, condVars, poolVars>>

CacheNext ==
  \/ \E p \in Procs : \E r \in Requests : Serve(p, r)
  \/ \E p \in Procs : RLock(p)
  \/ \E p \in Procs : RUnlock(p)
  \/ \E p \in Procs : Check(p)
  \/ \E p \in Procs : Lock(p)
  \/ \E p \in Procs : LockAcquire(p)
  \/ \E p \in Procs : Evict(p)
  \/ \E p \in Procs : Store(p)
  \/ \E p \in Procs : Unlock(p)
  \/ \E p \in Procs : Respond(p)
  \/ Tick

SpecCache == CacheInit /\ [][CacheNext]_vars

(***************************************************************************)
(* A caller of the converter package: HTMLToMarkdown and ProcessHTML on    *)
(* documents the parser can produce                                        *)
(***************************************************************************)

\* the deepest chain of nested lists among the inputs
MaxNest == 11

Directives == {<<>>, <<Attr("data-llm", KEEP)>>, <<Attr("data-llm", DROP)>>}

NestTags == {"nav", "footer", "div", "blockquote", "canvas"}

\* the innermost element may also be a script, with or without a description
LeafTags == NestTags \cup {"script"}

LeafDirectives == Directives \cup {<<Attr("data-llm-description", <<"q">>)>>}

\* three nested elements, each with a text of its own, after a text of the body
NestDocs ==
  { Page(<<Text(<<"w">>),
           Elem(t1, a1, <<Text(<<"x">>),
                          Elem(t2, a2, <<Text(<<"y">>),
                                         Elem(t3, a3, <<Text(<<"z">>)>>)>>)>>)>>) :
      t1 \in NestTags, a1 \in Directives, t2 \in NestTags, a2 \in Directives,
      t3 \in LeafTags, a3 \in LeafDirectives }

ListTags == {"ol", "ul", "li", "div"}

\* the parser merges adjacent texts and closes an open li when the next li starts
ParserKids(tag, kids) ==
  /\ \A i \in 1..(Len(kids) - 1) : ~(kids[i].type = "text" /\ kids[i + 1].type = "text")
  /\ tag = "li" => \A i \in 1..Len(kids) : ~(kids[i].type = "element" /\ kids[i].data = "li")

KidSeqs(S) == {<<>>} \cup {<<a>> : a \in S} \cup {<<a, b>> : a \in S, b \in S}

ListLeaves == {Text(<<"x">>)}

ListNodes1 ==
  ListLeaves \cup
    {Elem(t, <<>>, k) : t \in ListTags, k \in {k \in KidSeqs(ListLeaves) : ParserKids("", k)}}

ListNodes2 ==
  ListLeaves \cup
    UNION {{Elem(t, <<>>, k) : k \in {k \in KidSeqs(ListNodes1) : ParserKids(t, k)}} :
             t \in ListTags}

\* lists, items and divisions in every arrangement two levels deep
ListDocs == {Page(<<n>>) : n \in ListNodes2}

\* k lists nested in each other, each with one item that holds the next list
RECURSIVE DeepList(_, _)
DeepList(k, tag) ==
  Elem(tag, <<>>,
       <<Elem("li", <<>>,
              IF k <= 1 THEN <<Text(<<"x">>)>> ELSE <<Text(<<"x">>), DeepList(k - 1, tag)>>)>>)

DeepDocs == {Page(<<DeepList(k, tag)>>) : k \in 1..MaxNest, tag \in {"ol", "ul"}}

\* a text with a noise substring, in upper and lower case
Credit == <<"C", "r", "e", "d", "i", "t", ":">>

\* what an img or a script may carry beside its directive
ImgAlts ==
  {<<>>, <<Attr("alt", <<>>)>>, <<Attr("alt", <<"A">>)>>, <<Attr("alt", <<"©">>)>>,
   <<Attr("alt", Credit)>>}

ScriptDescriptions ==
  {<<>>, <<Attr("data-llm-description", <<" ">>)>>, <<Attr("data-llm-description", <<"q">>)>>}

\* an img (a void element), or a script with its code as its one text
Leaves ==
  {Elem("img", d \o a, <<>>) : d \in Directives, a \in ImgAlts}
    \cup {Elem("script", a \o d, <<Text(<<"z">>)>>) : d \in Directives, a \in ScriptDescriptions}

\* an img or a script in an element, after a text of that element
LeafDocs ==
  { Page(<<Text(<<"w">>), Elem(t1, a1, <<Text(<<"x">>), leaf>>)>>) :
      t1 \in {"div", "nav"}, a1 \in Directives, leaf \in Leaves }

\* an img after a text that condensation takes for noise
NoisyImgDocs ==
  { Page(<<Text(Credit), Elem("div", <<>>, <<Text(<<"x">>), Elem("img", a, <<>>)>>)>>) :
      a \in ImgAlts }

\* an img after a text that ends in white space
SpacedImgDocs == { Page(<<Text(<<"x", " ">>), Elem("img", a, <<>>)>>) : a \in ImgAlts }

\* the heading tags by level
HeadingTags == <<"h1", "h2", "h3", "h4", "h5", "h6">>

\* heading texts: plain, with white space around, with a line break, blank, noise
HeadingTexts ==
  { <<"H">>, <<"H", "e">>, <<" ", "H">>, <<"H", " ">>, <<"H", "\n", "e">>, <<" ">>,
    <<"\n">>, <<"©">>, Credit, <<"H">> \o Credit, <<"1">> }

\* <hk>X</hk>
HeadingDoc(k, X) == Page(<<Elem(HeadingTags[k], <<>>, <<Text(X)>>)>>)

HeadingDocs == {HeadingDoc(k, X) : k \in 1..Len(HeadingTags), X \in HeadingTexts}

\* an li with its text, and perhaps a list of two items after it
ListItems ==
  { Elem("li", <<>>, <<Text(<<"x">>)>> \o inner) :
      inner \in {<<>>} \cup
        { <<Elem(t, <<>>, <<Elem("li", <<>>, <<Text(<<"y">>)>>),
                            Elem("li", <<>>, <<Text(<<"z">>)>>)>>)>> : t \in {"ol", "ul"} } }

\* lists of one to three such items
ItemLists ==
  { Elem(t, <<>>, k) :
      t \in {"ol", "ul", "menu"},
      k \in {<<a>> : a \in ListItems} \cup {<<a, b>> : a \in ListItems, b \in ListItems}
             \cup {<<a, b, c>> : a \in ListItems, b \in ListItems, c \in ListItems} }

\* one such list, or two lists of two items one after the other
ItemDocs ==
  {Page(<<l>>) : l \in ItemLists}
    \cup { Page(<<l1, l2>>) :
             l1 \in {l \in ItemLists : Len(l.kids) = 2},
             l2 \in {l \in ItemLists : Len(l.kids) = 2} }

\* tags of every kind of rule: wrap rules, handlers, skipped, passed through,
\* stripped by default, unknown
DispatchTags == {"p", "em", "a", "ul", "canvas", "div", "footer", "x-foo"}

\* a text, then one element with a text of its own
DispatchDoc(tag, attr) == Page(<<Text(<<"w">>), Elem(tag, attr, <<Text(<<"y">>)>>)>>)

DispatchDocs == {DispatchDoc(t, a) : t \in DispatchTags, a \in Directives}

\* texts with white space around and a line break within, and a blank text
PreTexts == {<<" ", "a", "\n", "b", " ">>, <<" ">>}

\* what a pre may hold: a text, alone or before or after a code or a nested pre
PreKids ==
  {<<Text(t)>> : t \in PreTexts}
    \cup { <<Elem(tag, <<>>, <<Text(<<" ", "c", " ">>)>>), Text(t)>> :
             tag \in {"code", "pre"}, t \in PreTexts }
    \cup { <<Text(t), Elem(tag, <<>>, <<Text(<<" ", "c", " ">>)>>)>> :
             tag \in {"code", "pre"}, t \in PreTexts }

\* a text, then a pre or a code with such content
PreDocs ==
  { Page(<<Text(t), Elem(tag, <<>>, k)>>) :
      t \in PreTexts, tag \in {"pre", "code"}, k \in PreKids }

RenderDocs ==
  NestDocs \cup ListDocs \cup DeepDocs \cup LeafDocs \cup NoisyImgDocs \cup HeadingDocs
    \cup ItemDocs \cup DispatchDocs \cup PreDocs \cup SpacedImgDocs \cup {Unparseable}

RenderConfigs ==
  { [ElementsToStrip |-> e, RemoveImagesNoAlt |-> r] :
      e \in {<<>>, <<"blockquote">>, <<"h1", "p", "a">>}, r \in BOOLEAN }

RenderInit ==
  /\ rdoc \in RenderDocs
  /\ rcfg \in RenderConfigs
  /\ rpc = "start"
  /\ rout = NoResult
  /\ rproc = Document(<<>>)
  /\ rconv = NoResult
  /\ CacheIdle /\ CondIdle /\ PoolIdle

\* markdown, err := HTMLToMarkdown(html, cfg)
CallHTMLToMarkdown ==
  /\ rpc = "start"
  /\ rout' = HTMLToMarkdown(rdoc, rcfg)
  /\ rpc' = "converted"
  /\ UNCHANGED <<rdoc, rcfg, rproc, rconv>>
  /\ UNCHANGED <<cacheVars, condVars, poolVars>>

\* processed, err := ProcessHTML(html, cfg)
CallProcessHTML ==
  /\ rpc = "converted"
  /\ rproc' = IF rdoc = Unparseable THEN rproc ELSE ProcessHTML(rdoc, rcfg)
  /\ rpc' = "done"
  /\ UNCHANGED <<rdoc, rcfg, rout, rconv>>
  /\ UNCHANGED <<cacheVars, condVars, poolVars>>

\* md := Convert(html, elementsToStrip, len)
CallConvert ==
  /\ rpc = "done"
  /\ rconv' = Convert(rdoc, rcfg.ElementsToStrip)
  /\ rpc' = "exported"
  /\ UNCHANGED <<rdoc, rcfg, rout, rproc>>
  /\ UNCHANGED <<cacheVars, condVars, poolVars>>

RenderNext == CallHTMLToMarkdown \/ CallProcessHTML \/ CallConvert

SpecRender == RenderInit /\ [][RenderNext]_vars

(***************************************************************************)
(* A caller of CondenseMarkdown, on its own result too                     *)
(***************************************************************************)

\* the longest text condensed
MaxLen == 6

CondenseAlphabet == {"a", " ", "\n", "1", "#"}

\* the most pieces of a text put together of pieces
MaxPieces == 4

\* pieces of text: characters, a number line with a line of content, and noise
CondensePieces ==
  {<<"a">>, <<"\n">>, <<" ">>, <<"1">>, <<"#">>, <<"1", "\n", "a", "\n">>, Credit, <<"Â", "©">>}

\* the texts of up to k pieces
RECURSIVE PieceTexts(_)
PieceTexts(k) ==
  IF k = 0 THEN {<<>>}
  ELSE PieceTexts(k - 1) \cup {t \o p : t \in PieceTexts(k - 1), p \in CondensePieces}

CondenseInputs == UNION {[1..k -> CondenseAlphabet] : k \in 0..MaxLen} \cup PieceTexts(MaxPieces)

CondenseInit ==
  /\ ctext \in CondenseInputs
  /\ cpc = "start"
  /\ cout1 = <<>>
  /\ cout2 = <<>>
  /\ CacheIdle /\ RenderIdle /\ PoolIdle

\* once := CondenseMarkdown(text)
CondenseOnce ==
  /\ cpc = "start"
  /\ cout1' = CondenseMarkdown(ctext)
  /\ cpc' = "once"
  /\ UNCHANGED <<ctext, cout2>>
  /\ UNCHANGED <<cacheVars, renderVars, poolVars>>

\* twice := CondenseMarkdown(once)
CondenseAgain ==
  /\ cpc = "once"
  /\ cout2' = CondenseMarkdown(cout1)
  /\ cpc' = "twice"
  /\ UNCHANGED <<ctext, cout1>>
  /\ UNCHANGED <<cacheVars, renderVars, poolVars>>

CondenseNext == CondenseOnce \/ CondenseAgain

SpecCondense == CondenseInit /\ [][CondenseNext]_vars

(***************************************************************************)
(* Goroutines calling HTMLToMarkdown at the same time: bufPool             *)
(***************************************************************************)

PoolConfig(removeImagesNoAlt) ==
  [ElementsToStrip |-> <<>>, RemoveImagesNoAlt |-> removeImagesNoAlt]

\* the calls the goroutines make: [doc, cfg]
PoolInputs ==
  { [doc |-> Page(<<Elem("h1", <<>>, <<Text(<<"a">>)>>)>>), cfg |-> PoolConfig(FALSE)],
    [doc |-> Page(<<Elem("img", <<>>, <<>>)>>), cfg |-> PoolConfig(FALSE)],
    [doc |-> Page(<<Elem("img", <<>>, <<>>)>>), cfg |-> PoolConfig(TRUE)],
    [doc |-> Page(<<Elem("p", <<>>, <<Text(<<"b">>)>>), Elem("li", <<>>, <<Text(<<"x">>)>>)>>),
     cfg |-> PoolConfig(FALSE)],
    [doc |-> Unparseable, cfg |-> PoolConfig(FALSE)] }

NoInput == [doc |-> Document(<<>>), cfg |-> NoConfig]

\* bufPool holds the builders put back, each with the content it was left with.
\* It is a set of contents: sync.Pool may drop any item at any time, so of two
\* builders with the same content one may always be gone.
PoolInit ==
  /\ pool = {}
  /\ builder = [p \in Procs |-> <<>>]
  /\ gpc = [p \in Procs |-> "idle"]
  /\ gin = [p \in Procs |-> NoInput]
  /\ gbuf = [p \in Procs |-> <<>>]
  /\ gout = [p \in Procs |-> NoResult]
  /\ results = {}
  /\ CacheIdle /\ RenderIdle /\ CondIdle

\* HTMLToMarkdown(htmlContent, stripConfig) up to html.Parse
Call(p, in) ==
  /\ gpc[p] = "idle"
  /\ gin' = [gin EXCEPT ![p] = in]
  /\ IF in.doc = Unparseable
     THEN /\ gout' = [gout EXCEPT ![p] = ParseError]
          /\ gpc' = [gpc EXCEPT ![p] = "return"]
     ELSE /\ gout' = [gout EXCEPT ![p] = NoResult]
          /\ gpc' = [gpc EXCEPT ![p] = "get"]
  /\ UNCHANGED <<pool, builder, gbuf, results>>
  /\ UNCHANGED <<cacheVars, renderVars, condVars>>

\* buf := getBuffer(), on a builder of the pool: gbuf remembers what it held
GetPooled(p, b) ==
  /\ gpc[p] = "get"
  /\ b \in pool
  /\ pool' = pool \ {b}
  /\ gbuf' = [gbuf EXCEPT ![p] = b]
  /\ builder' = [builder EXCEPT ![p] = getBuffer(b)]
  /\ gpc' = [gpc EXCEPT ![p] = "walk"]
  /\ UNCHANGED <<gin, gout, results>>
  /\ UNCHANGED <<cacheVars, renderVars, condVars>>

\* buf := getBuffer(), on a builder the pool's New made
GetNew(p) ==
  /\ gpc[p] = "get"
  /\ gbuf' = [gbuf EXCEPT ![p] = <<>>]
  /\ builder' = [builder EXCEPT ![p] = getBuffer(<<>>)]
  /\ gpc' = [gpc EXCEPT ![p] = "walk"]
  /\ UNCHANGED <<pool, gin, gout, results>>
  /\ UNCHANGED <<cacheVars, renderVars, condVars>>

\* ctx.walk(doc); result := buf.String(); CondenseMarkdown(result)
Walk(p) ==
  /\ gpc[p] = "walk"
  /\ LET ctx == RunWalk(gin[p].doc, gin[p].cfg, builder[p])
     IN /\ builder' = [builder EXCEPT ![p] = ctx.buf]
        /\ gout' = [gout EXCEPT ![p] = Finished(ctx)]
  /\ gpc' = [gpc EXCEPT ![p] = "put"]
  /\ UNCHANGED <<pool, gin, gbuf, results>>
  /\ UNCHANGED <<cacheVars, renderVars, condVars>>

\* defer putBuffer(buf): runs when the walk panicked, too
PutBuffer(p) ==
  /\ gpc[p] = "put"
  /\ pool' = pool \cup {builder[p]}
  /\ builder' = [builder EXCEPT ![p] = <<>>]
  /\ gpc' = [gpc EXCEPT ![p] = "return"]
  /\ UNCHANGED <<gin, gbuf, gout, results>>
  /\ UNCHANGED <<cacheVars, renderVars, condVars>>

\* the call returns; results is the history of the calls and what they returned
Return(p) ==
  /\ gpc[p] = "return"
  /\ results' = results \cup {[in |-> gin[p], out |-> gout[p]]}
  /\ gpc' = [gpc EXCEPT ![p] = "idle"]
  /\ gin' = [gin EXCEPT ![p] = NoInput]
  /\ gbuf' = [gbuf EXCEPT ![p] = <<>>]
  /\ gout' = [gout EXCEPT ![p] = NoResult]
  /\ UNCHANGED <<pool, builder>>
  /\ UNCHANGED <<cacheVars, renderVars, condVars>>

PoolNext ==
  \E p \in Procs :
    \/ \E in \in PoolInputs : Call(p, in)
    \/ \E b \in pool : GetPooled(p, b)
    \/ GetNew(p)
    \/ Walk(p)
    \/ PutBuffer(p)
    \/ Return(p)

SpecPool == PoolInit /\ [][PoolNext]_vars

(***************************************************************************)
(* Claims about the result cache, checked under SpecCache                  *)
(***************************************************************************)

\* a step of goroutine p
Moves(p) == pc'[p] # pc[p] \/ response'[p] # response[p]

\* C1: a lookup of F whose hit test runs within the time-to-live of the last store
\* of T under F, F not evicted since, is a hit returning exactly T; a lookup of a
\* digest never stored is a miss.
C1_StoreThenLookup ==
  [][\A p \in Procs :
       (pc[p] = "check" /\ Moves(p)) =>
         /\ (seen[p].st = "stored" /\ now - seen[p].timestamp < cacheTTL)
              => (hit'[p] /\ pc'[p] = "respond" /\ markdown'[p] = seen[p].content)
         /\ (seen[p].st = "never") => (~hit'[p] /\ pc'[p] # "respond")]_vars

\* C1's case: a goroutine about to answer with the text stored under its digest
C1_Witness ==
  \E p \in Procs :
    /\ pc[p] = "respond" /\ hit[p]
    /\ seen[p].st = "stored" /\ seen[p].content # <<>>
    /\ markdown[p] = seen[p].content

\* C2: eviction is FIFO by first insertion. A store of a digest already present
\* leaves the insertion order as it was; a store of a new digest into a full cache
\* removes exactly the earliest inserted digest and keeps the later ones; a store
\* of a new digest below capacity appends it; lookups never change the order.
C2_FifoByFirstInsertion ==
  [][\A p \in Procs :
       /\ (pc[p] \in {"rlock", "runlock", "check", "respond"} /\ Moves(p))
            => cacheOrder' = cacheOrder
       /\ (pc[p] = "unlock" /\ Moves(p)) =>
            LET k == cacheKey(p)
                o == atLock.order
            IN IF k \in atLock.keys THEN cacheOrder = o
               ELSE IF Len(o) >= maxCacheSize
                    THEN /\ cacheOrder = Append(Tail(o), k)
                         /\ DOMAIN cache = (atLock.keys \ {Head(o)}) \cup {k}
                    ELSE cacheOrder = Append(o, k)]_vars

\* C3: a lookup that finds an entry whose age is at or beyond the time-to-live is a
\* miss, and no step of a lookup changes the map or the insertion order.
C3_ExpiredIsMissAndKept ==
  [][\A p \in Procs :
       /\ (pc[p] \in {"rlock", "runlock", "check"} /\ Moves(p))
            => (cache' = cache /\ cacheOrder' = cacheOrder)
       /\ (pc[p] = "check" /\ Moves(p) /\ entry[p].found
             /\ now - entry[p].timestamp >= cacheTTL)
            => (~hit'[p] /\ pc'[p] # "respond")]_vars

\* C3's case: a goroutine missed on an expired entry, which is still in the map
C3_Witness ==
  \E p \in Procs :
    /\ pc[p] = "lock" /\ entry[p].found /\ ~hit[p]
    /\ cacheKey(p) \in DOMAIN cache
    /\ cache[cacheKey(p)].timestamp = entry[p].timestamp
    /\ now - entry[p].timestamp >= cacheTTL

\* C4: a store removes an entry only when its digest is new and the cache is at or
\* above capacity; a store that overwrites a digest already present removes none.
C4_EvictOnlyForNewKey ==
  \A p \in Procs :
    pc[p] = "unlock" =>
      /\ (atLock.keys \ DOMAIN cache # {})
           => (cacheKey(p) \notin atLock.keys /\ Cardinality(atLock.keys) >= maxCacheSize)
      /\ cacheKey(p) \in atLock.keys => atLock.keys \subseteq DOMAIN cache

\* C5: a writer excludes every other writer and every reader, readers share the
\* lock, and while a reader holds it the map and the insertion order agree.
C5_WriterExcludesAll ==
  /\ cacheMu.readers = Cardinality({p \in Procs : pc[p] = "runlock"})
  /\ \A p \in Procs :
       InWrite(p) => /\ cacheMu.writer = p
                     /\ cacheMu.readers = 0
                     /\ \A q \in Procs \ {p} : ~InWrite(q)
  /\ cacheMu.readers > 0 =>
       /\ \A q \in Procs : ~InWrite(q)
       /\ {cacheOrder[i] : i \in 1..Len(cacheOrder)} = DOMAIN cache

\* C5's case: two readers hold the read lock at once
C5_Witness == cacheMu.readers = 2

\* C6: a request that hits does not call HTMLToMarkdown, answers with the cached
\* text, and none of its steps changes the map (timestamps included) or the order.
C6_HitSkipsPipeline ==
  [][\A p \in Procs :
       (Moves(p) /\ (hit[p] \/ hit'[p])) =>
         /\ cache' = cache /\ cacheOrder' = cacheOrder
         /\ ~converted[p] /\ ~converted'[p]
         /\ pc[p] = "respond" => response'[p].body = entry[p].content]_vars

\* C6's case: a goroutine about to answer a hit from an entry that is in the map
C6_Witness ==
  \E p \in Procs :
    /\ pc[p] = "respond" /\ hit[p] /\ ~converted[p]
    /\ cacheKey(p) \in DOMAIN cache
    /\ markdown[p] = entry[p].content /\ markdown[p] # <<>>

(***************************************************************************)
(* Claims about the converter, checked under SpecRender                    *)
(***************************************************************************)

\* C7: for every tree the parser produces, HTMLToMarkdown returns text: it does not
\* panic and returns no error.
C7_RenderingIsTotal ==
  (rpc # "start" /\ rdoc # Unparseable) => rout.outcome = "ok"

EffectiveStripSet(cfg) == Range(defaultStripElements) \cup Range(cfg.ElementsToStrip)

\* the characters of the texts below n
RECURSIVE TextChars(_)
TextChars(n) ==
  IF n.type = "text" THEN Range(n.data)
  ELSE UNION {TextChars(Kids(n)[i]) : i \in 1..Len(Kids(n))}

\* an element of the strip set with no retention directive
Strippable(n, strip) ==
  /\ n.type = "element" /\ n.data \in strip
  /\ ~hasAttr(n, "data-llm", KEEP) /\ ~hasAttr(n, "data-llm", DROP)

\* the characters of the texts below the strippable elements of n that lie outside
\* every keep-annotated subtree
RECURSIVE StrippedChars(_, _)
StrippedChars(n, strip) ==
  IF n.type = "text" \/ hasAttr(n, "data-llm", KEEP) THEN {}
  ELSE IF Strippable(n, strip) THEN TextChars(n)
  ELSE UNION {StrippedChars(Kids(n)[i], strip) : i \in 1..Len(Kids(n))}

\* n has a strippable element outside every keep-annotated subtree
RECURSIVE HasStrippable(_, _)
HasStrippable(n, strip) ==
  /\ n.type # "text" /\ ~hasAttr(n, "data-llm", KEEP)
  /\ \/ Strippable(n, strip)
     \/ \E i \in 1..Len(Kids(n)) : HasStrippable(Kids(n)[i], strip)

\* C10: an element whose tag is in the effective strip set (the defaults and the
\* caller's ElementsToStrip), with no retention directive, outside every
\* keep-annotated subtree, is not in ProcessHTML's tree, and none of its text is in
\* that tree or in HTMLToMarkdown's text.
C10_StripSetRemoved ==
  rpc = "done" /\ rdoc # Unparseable =>
    LET strip == EffectiveStripSet(rcfg)
        gone == StrippedChars(rdoc, strip)
    IN /\ rout.outcome = "ok" => gone \cap Range(rout.text) = {}
       /\ gone \cap TextChars(rproc) = {}
       /\ ~HasStrippable(rproc, strip)

\* C10's case: a caller-named tag stripped two levels down, its parent's text kept
C10_Witness ==
  /\ rpc = "done" /\ rdoc # Unparseable /\ rout.outcome = "ok"
  /\ rcfg.ElementsToStrip = <<"blockquote">>
  /\ StrippedChars(rdoc, EffectiveStripSet(rcfg)) = {"y", "z"}
  /\ "x" \in Range(rout.text) /\ "x" \in TextChars(rproc)

(***************************************************************************)
(* Claims about CondenseMarkdown, checked under SpecCondense               *)
(***************************************************************************)

\* C8: CondenseMarkdown is idempotent: condensing a condensed text gives the same
\* text again.
C8_CondenseIdempotent == cpc = "twice" => cout2 = cout1

(***************************************************************************)
(* Claims about concurrent conversions, checked under SpecPool             *)
(***************************************************************************)

\* C9: two calls of HTMLToMarkdown with the same input and the same StripConfig give
\* the same result, whatever conversions ran before or run at the same time: this
\* holds of every call that returned and of every call that has its result.
C9_SameInputSameOutput ==
  /\ \A r1 \in results : \A r2 \in results : r1.in = r2.in => r1.out = r2.out
  /\ \A p \in Procs : gpc[p] \in {"put", "return"} =>
       \A r \in results : r.in = gin[p] => r.out = gout[p]

\* C9's case: a call has its text from a builder that an earlier call left with
\* content, the other goroutine is in a walk, and the same input returned before
C9_Witness ==
  \E p \in Procs : \E q \in Procs \ {p} :
    /\ gpc[p] = "put" /\ gbuf[p] # <<>> /\ gout[p].outcome = "ok" /\ gout[p].text # <<>>
    /\ gpc[q] \in {"walk", "put"}
    /\ \E r \in results : r.in = gin[p]

(***************************************************************************)
(* Claims about the directives, checked under SpecRender                   *)
(***************************************************************************)

\* the texts of the tree n
RECURSIVE TreeTexts(_)
TreeTexts(n) ==
  IF n.type = "text" THEN {n.data}
  ELSE UNION {TreeTexts(Kids(n)[i]) : i \in 1..Len(Kids(n))}

\* the elements of the tree n, n included
RECURSIVE Elements(_)
Elements(n) ==
  IF n.type = "text" THEN {}
  ELSE (IF n.type = "element" THEN {n} ELSE {})
         \cup UNION {Elements(Kids(n)[i]) : i \in 1..Len(Kids(n))}

Dropped(n) == n.type = "element" /\ hasAttr(n, "data-llm", DROP)

\* the elements of n that carry the drop directive or lie below one that does
RECURSIVE DroppedElements(_)
DroppedElements(n) ==
  IF n.type = "text" THEN {}
  ELSE IF Dropped(n) THEN Elements(n)
  ELSE UNION {DroppedElements(Kids(n)[i]) : i \in 1..Len(Kids(n))}

\* the text p is in ProcessHTML's tree or in HTMLToMarkdown's text
InProcessed(p) == \E t \in TreeTexts(rproc) : Contains(t, p)

InMarkdown(p) == rout.outcome = "ok" /\ Contains(rout.text, p)

\* C11: an element with data-llm="drop", whatever its tag, contributes nothing to
\* ProcessHTML's tree or to HTMLToMarkdown's text: no text of its subtree, no image
\* placeholder, no script description.
C11_DropContributesNothing ==
  rpc = "done" /\ rdoc # Unparseable =>
    \A e \in DroppedElements(rdoc) :
      /\ \A c \in TextChars(e) : ~InProcessed(<<c>>) /\ ~InMarkdown(<<c>>)
      /\ e.data = "img" => ~InProcessed(ImagePrefix) /\ ~InMarkdown(ImagePrefix)
      /\ e.data = "script" => ~InProcessed(JsDescription) /\ ~InMarkdown(JsDescription)

\* a strip-set element that carries data-llm="keep"
KeptStrip(n, strip) ==
  n.type = "element" /\ n.data \in strip /\ hasAttr(n, "data-llm", KEEP)

\* C12: an element with data-llm="drop" below a strip-set element with
\* data-llm="keep" is removed with its subtree from ProcessHTML's tree and from
\* HTMLToMarkdown's text.
C12_DropBelowKeepRemoved ==
  rpc = "done" /\ rdoc # Unparseable =>
    \A k \in Elements(rdoc) :
      KeptStrip(k, EffectiveStripSet(rcfg)) =>
        \A e \in DroppedElements(k) : \A c \in TextChars(e) :
          ~InProcessed(<<c>>) /\ ~InMarkdown(<<c>>)

\* the characters of the texts of n that the keep directive is to preserve: those
\* below a kept strip-set element, outside every dropped subtree and every tag that
\* renders nothing
RECURSIVE KeepPreserves(_, _, _)
KeepPreserves(n, strip, underKeep) ==
  IF n.type = "text" THEN (IF underKeep THEN Range(n.data) ELSE {})
  ELSE IF n.type = "element" /\ (Dropped(n) \/ n.data \in skipTags) THEN {}
  ELSE IF n.type = "element" /\ ~underKeep /\ n.data \in strip /\ ~KeptStrip(n, strip) THEN {}
  ELSE UNION {KeepPreserves(Kids(n)[i], strip, underKeep \/ KeptStrip(n, strip)) :
                i \in 1..Len(Kids(n))}

\* C13: when a strip-set element carries data-llm="keep", its text and the text of
\* every descendant in the strip set that has no drop of its own is in
\* ProcessHTML's tree and in HTMLToMarkdown's text.
C13_KeepExemptsSubtree ==
  rpc = "done" /\ rdoc # Unparseable /\ rout.outcome = "ok" =>
    \A c \in KeepPreserves(rdoc, EffectiveStripSet(rcfg), FALSE) :
      InProcessed(<<c>>) /\ InMarkdown(<<c>>)

\* the script elements of n that carry no data-llm directive and lie in no
\* subtree that is dropped, stripped or skipped
RECURSIVE LiveScripts(_, _)
LiveScripts(n, strip) ==
  IF n.type = "text" THEN {}
  ELSE IF n.type = "element" /\ n.data = "script"
       THEN (IF Dropped(n) \/ hasAttr(n, "data-llm", KEEP) THEN {} ELSE {n})
  ELSE IF n.type = "element" /\ (Dropped(n) \/ Strippable(n, strip) \/ n.data \in skipTags)
       THEN {}
  ELSE UNION {LiveScripts(Kids(n)[i], strip) : i \in 1..Len(Kids(n))}

\* C14: a script without keep whose data-llm-description is not empty after
\* trimming is replaced by "Javascript description: " and the description, and the
\* script and its code do not appear; a script whose description is absent, empty
\* or blank gives no description text. The same in ProcessHTML and HTMLToMarkdown.
C14_ScriptDescription ==
  rpc = "done" /\ rdoc # Unparseable /\ rout.outcome = "ok" =>
    \A sc \in LiveScripts(rdoc, EffectiveStripSet(rcfg)) :
      LET desc == getAttr(sc, "data-llm-description")
      IN IF TrimSpace(desc) # <<>>
         THEN /\ InProcessed(JsDescription \o desc) /\ InMarkdown(JsDescription \o desc)
              /\ \A c \in TextChars(sc) : ~InProcessed(<<c>>) /\ ~InMarkdown(<<c>>)
              /\ \A e \in Elements(rproc) : e.data # "script"
         ELSE ~InProcessed(TrimSpace(JsDescription)) /\ ~InMarkdown(TrimSpace(JsDescription))

\* the img elements of n that carry no drop directive, whose tag is not stripped,
\* and that lie in no subtree that is dropped, stripped or skipped
RECURSIVE LiveImgs(_, _)
LiveImgs(n, strip) ==
  IF n.type = "text" THEN {}
  ELSE IF n.type = "element" /\ (Dropped(n) \/ Strippable(n, strip) \/ n.data \in skipTags)
       THEN {}
  ELSE IF n.type = "element" /\ n.data = "img" THEN {n}
  ELSE UNION {LiveImgs(Kids(n)[i], strip) : i \in 1..Len(Kids(n))}

\* the placeholder of alt has no line break and is on no line of the walk's
\* output that removeNoiseLines drops
OnKeptLine(alt) ==
  LET lines == Split(RunWalk(rdoc, rcfg, <<>>).buf)
  IN /\ "\n" \notin Range(alt)
     /\ \A i \in 1..Len(lines) :
          Contains(lines[i], ImageText(alt)) => ~IsNoiseLine(lines[i])

\* what the claim says of one img; with keptOnly, the placeholder is said to be
\* in HTMLToMarkdown's text only when OnKeptLine
ImageSubstituted(img, keptOnly) ==
  LET alt == getAttr(img, "alt")
      shown == keptOnly => OnKeptLine(alt)
  IN IF alt # <<>> \/ ~rcfg.RemoveImagesNoAlt
     THEN /\ ImageText(alt) \in TreeTexts(rproc)
          /\ shown => InMarkdown(ImageText(alt))
     ELSE ~InProcessed(ImagePrefix) /\ ~InMarkdown(ImagePrefix)

\* C15 as stated: for every img, the output has "[Image: " + alt + "]" for every
\* non-empty alt, "[Image]" for no alt without RemoveImagesNoAlt, and no "[Image"
\* with it, in ProcessHTML and in HTMLToMarkdown.
C15_ImageSubstitution ==
  rpc = "done" /\ rdoc # Unparseable /\ rout.outcome = "ok" =>
    \A img \in LiveImgs(rdoc, EffectiveStripSet(rcfg)) :
      ImageSubstituted(img, FALSE)

\* C15 as amended: the same, but HTMLToMarkdown's text is only said to have the
\* placeholder when the alt text has no line break and the line the walk wrote the
\* placeholder on has none of the noise substrings.
C15_ImageSubstitutionUnlessNoise ==
  rpc = "done" /\ rdoc # Unparseable /\ rout.outcome = "ok" =>
    \A img \in LiveImgs(rdoc, EffectiveStripSet(rcfg)) :
      ImageSubstituted(img, TRUE)

\* C15's case: an img with an alt text, its placeholder in both outputs, under
\* RemoveImagesNoAlt
C15_Witness ==
  /\ rpc = "done" /\ rout.outcome = "ok" /\ rcfg.RemoveImagesNoAlt
  /\ \E img \in LiveImgs(rdoc, EffectiveStripSet(rcfg)) :
       /\ getAttr(img, "alt") = <<"A">>
       /\ InMarkdown(ImageText(<<"A">>))
       /\ ImageText(<<"A">>) \in TreeTexts(rproc)

(***************************************************************************)
(* Headings                                                                *)
(***************************************************************************)

\* k '#' characters, one space, then X
HeadingLine(k, X) == Repeat(<<"#">>, k) \o <<" ">> \o X

\* C16 as stated: for every level k in 1..6 and every non-empty heading text X,
\* HTMLToMarkdown of <hk>X</hk> returns text that contains k '#' characters, one
\* space, then X.
C16_HeadingMapping ==
  \A k \in 1..Len(HeadingTags), X \in HeadingTexts :
    rpc # "start" /\ rdoc = HeadingDoc(k, X) /\ X # <<>> =>
      InMarkdown(HeadingLine(k, X))

\* a text that renderText writes as it is and that removeNoiseLines keeps
PlainText(X) ==
  /\ X # <<>> /\ TrimSpace(X) = X
  /\ "\n" \notin Range(X)
  /\ ~IsNoiseLine(X)

\* C16 as amended: for every level k in 1..6 and every non-empty heading text X
\* with no white space at either end, no line break and no noise substring,
\* HTMLToMarkdown of <hk>X</hk>, with hk not in the strip set, returns text that
\* contains k '#' characters, one space, then X.
C16_HeadingMappingPlainText ==
  \A k \in 1..Len(HeadingTags), X \in HeadingTexts :
    /\ rpc # "start" /\ rdoc = HeadingDoc(k, X)
    /\ PlainText(X) /\ HeadingTags[k] \notin EffectiveStripSet(rcfg)
    => InMarkdown(HeadingLine(k, X))

\* C16's case: <h6>He</h6> converted to "###### He"
C16_Witness ==
  /\ rpc # "start" /\ rdoc = HeadingDoc(6, <<"H", "e">>)
  /\ rout.outcome = "ok" /\ rout.text = HeadingLine(6, <<"H", "e">>)

(***************************************************************************)
(* List numbering                                                          *)
(***************************************************************************)

\* the content of the body of a page
Body(doc) == doc.kids[1].kids[2].kids

\* the prefix the claim gives the i-th item of a list
ItemPrefix(list, i) == IF list.data = "ol" THEN itoa(i) \o <<".", " ">> ELSE <<"-", " ">>

\* the lines the claim expects of the first i items of a list whose children are
\* all items, where an item is a text and then the lists nested in it: each
\* item's own line, then the lines of its nested lists
RECURSIVE ItemLines(_, _)
RECURSIVE NestedLines(_, _)
ItemLines(list, i) ==
  IF i = 0 THEN <<>>
  ELSE ItemLines(list, i - 1)
         \o <<ItemPrefix(list, i) \o list.kids[i].kids[1].data>>
         \o NestedLines(list.kids[i].kids, Len(list.kids[i].kids))

\* the lines of the lists among the first j children
NestedLines(kids, j) ==
  IF j <= 1 THEN <<>>
  ELSE NestedLines(kids, j - 1) \o ItemLines(kids[j], Len(kids[j].kids))

\* the non-empty lines of a text, without their indentation
TextLines(text) ==
  LET lines == Split(text)
      full == SelectSeq(lines, LAMBDA l : TrimSpace(l) # <<>>)
  IN [i \in 1..Len(full) |-> TrimLeft(full[i], {" "})]

\* C17: within an ol the i-th rendered li gets the prefix "i. ", counted from 1
\* again in every ordered list that opens, and counted on in the outer list after
\* a list nested in one of its items closes; items of ul and menu get "- ".
C17_OrderedListNumbering ==
  /\ rpc # "start" /\ rdoc \in ItemDocs \cup DeepDocs
  /\ EffectiveStripSet(rcfg) \cap {"ol", "ul", "menu", "li"} = {}
  =>
    /\ rout.outcome = "ok"
    /\ TextLines(rout.text) = NestedLines(<<Text(<<>>)>> \o Body(rdoc), 1 + Len(Body(rdoc)))

(***************************************************************************)
(* Claims about condensation, checked under SpecCondense                   *)
(***************************************************************************)

\* the line contains one of the noise substrings, whatever the case of its letters
HasNoise(line) == \E p \in noisePatterns : Contains(ToLower(line), ToLower(p))

\* C18: no line of CondenseMarkdown's output contains, case-insensitively, any of
\* the noise substrings, while every input line that contains none of them, blank
\* lines included, is retained in its original relative order by removeNoiseLines.
C18_NoiseRemoval ==
  cpc # "start" =>
    /\ \A i \in 1..Len(Split(cout1)) : ~HasNoise(Split(cout1)[i])
    /\ SelectSeq(removeNoiseLines(Split(ctext)), LAMBDA l : ~HasNoise(l))
         = SelectSeq(Split(ctext), LAMBDA l : ~HasNoise(l))

\* a line that is only a number of one or two digits
NumberLine(l) ==
  LET t == TrimSpace(l)
  IN Len(t) \in {1, 2} /\ \A i \in 1..Len(t) : t[i] \in Digits

\* a line at which the collection of an item's content stops
StopLine(l) == NumberLine(l) \/ HasPrefix(TrimSpace(l), <<"#">>)

Blank(l) == TrimSpace(l) = <<>>

\* line k is content of the item of the number line i: it is not blank, and no
\* number or '#' line is between i and k or is k itself
ContentOf(lines, i, k) ==
  /\ i < k /\ NumberLine(lines[i]) /\ ~Blank(lines[k])
  /\ \A j \in (i + 1)..k : ~StopLine(lines[j])

\* the content lines of the number line i, in order
Parts(lines, i) ==
  LET ks == SelectSeq([k \in 1..Len(lines) |-> k], LAMBDA k : ContentOf(lines, i, k))
  IN [m \in 1..Len(ks) |-> TrimSpace(lines[ks[m]])]

\* the lines the claim expects, blank lines apart: every number line with content
\* as "N. " and its content joined with " - ", the content lines gone, every other
\* line as it is
Repaired(lines) ==
  LET ks == SelectSeq([k \in 1..Len(lines) |-> k],
                      LAMBDA k : /\ ~Blank(lines[k])
                                 /\ ~\E i \in 1..Len(lines) : ContentOf(lines, i, k))
  IN [m \in 1..Len(ks) |->
        IF NumberLine(lines[ks[m]]) /\ Parts(lines, ks[m]) # <<>>
        THEN TrimSpace(lines[ks[m]]) \o <<".", " ">>
               \o Join(Parts(lines, ks[m]), <<" ", "-", " ">>)
        ELSE lines[ks[m]]]

\* the lines of a text that are not blank, each without the white space around it
Content(lines) ==
  LET full == SelectSeq(lines, LAMBDA l : ~Blank(l))
  IN [m \in 1..Len(full) |-> TrimSpace(full[m])]

C20_NoThreeNewlines ==
  cpc # "start" => ~Contains(cout1, <<"\n", "\n", "\n">>)

(***************************************************************************)
(* Tag dispatch                                                            *)
(***************************************************************************)

\* the rule that decides an element by the priority of the claim: the first of
\* drop directive, strip set unless keep, skip set, wrap rule, pass-through,
\* handler, default
FirstRule(tag, attr, strip) ==
  LET n == Elem(tag, attr, <<>>)
      rules == << <<"drop", hasAttr(n, "data-llm", DROP)>>,
                  <<"strip", tag \in strip /\ ~hasAttr(n, "data-llm", KEEP)>>,
                  <<"skip", tag \in skipTags>>,
                  <<"wrap", tag \in wrapTags>>,
                  <<"pass", tag \in passThroughTags>>,
                  <<"handler", tag \in {"a", "ul"}>>,
                  <<"default", TRUE>> >>
      first == CHOOSE i \in 1..Len(rules) :
                 rules[i][2] /\ \A j \in 1..(i - 1) : ~rules[j][2]
  IN rules[first][1]

\* what the rule writes for an element of that tag with the one text "y"
RuleText(rule, tag) ==
  CASE rule \in {"drop", "strip", "skip"} -> <<>>
    [] rule = "wrap" -> wrapRules(tag).prefix \o <<"y">> \o wrapRules(tag).suffix
    [] rule = "handler" /\ tag = "a" -> <<"[", "y", "]", "(", ")">>
    [] rule = "handler" /\ tag = "ul" -> <<"\n", "y", "\n">>
    [] OTHER -> <<"y">>

\* C21: the first matching rule of drop directive > strip set (unless keep) > skip
\* set > wrap rule > pass-through > handler > default alone decides what an
\* element writes: a tag of the strip set with a wrap rule or a handler (p, a, ul)
\* is skipped with its subtree, and a tag of the skip set writes nothing, nor do
\* its descendants, even with a keep directive.
C21_DispatchPriority ==
  \A t \in DispatchTags, a \in Directives :
    rpc # "start" /\ rdoc = DispatchDoc(t, a) =>
      LET rule == FirstRule(t, a, EffectiveStripSet(rcfg))
      IN /\ rout.outcome = "ok"
         /\ rout.text = CondenseMarkdown(<<"w">> \o RuleText(rule, t))
         /\ rule \in {"drop", "strip", "skip"} => "y" \notin Range(rout.text)

\* C21's case: a p of the strip set, skipped with its text
C21_Witness ==
  /\ rpc # "start" /\ rout = [outcome |-> "ok", text |-> <<"w">>]
  /\ rdoc = DispatchDoc("p", <<>>) /\ "p" \in EffectiveStripSet(rcfg)

(***************************************************************************)
(* Preformatted mode                                                       *)
(***************************************************************************)

Fence == <<Backtick, Backtick, Backtick>>

\* what the claim expects the renderer to write for a tree of texts, pre, code and
\* pass-through elements: underPre says whether a pre is among the ancestors
RECURSIVE PreRendered(_, _)
RECURSIVE PreRenderedKids(_, _, _)
PreRendered(n, underPre) ==
  CASE n.type = "text" ->
         IF underPre THEN n.data
         ELSE IF TrimSpace(n.data) = <<>> THEN <<>>
         ELSE ReplaceNewlines(TrimSpace(n.data))
    [] n.type = "element" /\ n.data = "pre" ->
         <<"\n">> \o Fence \o <<"\n">> \o PreRenderedKids(n, TRUE, Len(Kids(n)))
           \o <<"\n">> \o Fence \o <<"\n", "\n">>
    [] n.type = "element" /\ n.data = "code" /\ ~underPre ->
         <<Backtick>> \o PreRenderedKids(n, underPre, Len(Kids(n))) \o <<Backtick>>
    [] OTHER -> PreRenderedKids(n, underPre, Len(Kids(n)))

PreRenderedKids(n, underPre, i) ==
  IF i = 0 THEN <<>>
  ELSE PreRenderedKids(n, underPre, i - 1) \o PreRendered(Kids(n)[i], underPre)

\* C22: every text with a pre among its ancestors, a text after a nested pre or
\* code inside the outer pre included, is written by the renderer as it is, white
\* space and line breaks kept; a code inside a pre adds no backticks; a text
\* outside any pre is trimmed, its line breaks made spaces, and skipped when empty.
C22_PreformattedMode ==
  rpc # "start" /\ rdoc \in PreDocs =>
    LET ctx == RunWalk(rdoc, rcfg, <<>>)
    IN ~ctx.panicked /\ ctx.buf = PreRendered(rdoc, FALSE)

(***************************************************************************)
(* Lists beyond the supported depth, and items outside a list              *)
(***************************************************************************)

\* how often the character c is in the text
Count(text, c) == Cardinality({i \in 1..Len(text) : text[i] = c})

\* C23: ordered lists nested deeper than the ten supported levels degrade
\* silently: the item at depth 11 or deeper is still rendered, perhaps with a
\* wrong number, and the conversion completes without failing or panicking.
C23_DeepListsDegrade ==
  \A k \in 1..MaxNest :
    /\ rpc # "start" /\ rdoc = Page(<<DeepList(k, "ol")>>)
    /\ k > OrderedListNumsLen /\ "ol" \notin EffectiveStripSet(rcfg)
    => rout.outcome = "ok" /\ Count(rout.text, "x") = k

\* an li with the text "x" that is in no list: under body, or under a div
StrayItemDocs ==
  { Page(<<Elem("li", <<>>, <<Text(<<"x">>)>>)>>),
    Page(<<Elem("div", <<>>, <<Elem("li", <<>>, <<Text(<<"x">>)>>)>>)>>) }

\* C30: an li with no enclosing list (list depth 0, directly under body or div) is
\* rendered as an unordered item with no indentation, "- ", its children, a
\* newline, and the conversion completes normally.
C30_StrayItemRendered ==
  rpc # "start" /\ rdoc \in StrayItemDocs /\ "li" \notin EffectiveStripSet(rcfg) =>
    rout = [outcome |-> "ok", text |-> <<"-", " ", "x">>]

(***************************************************************************)
(* The render state during the walk                                        *)
(***************************************************************************)

\* the part of the render state the list containers and pre change
ListState(ctx) ==
  [listDepth |-> ctx.listDepth, inOrderedList |-> ctx.inOrderedList, inPre |-> ctx.inPre]

\* renderList is running for n
OpensList(ctx, n) == n.type = "element" /\ Branch(ctx, n) \in {"ul", "ol"}

\* every call of walk during the walk of n that starts with ctx, with open list
\* containers on the path to n: the node's tag, the context the call starts
\* with, the context it returns with, and the list containers open around it
RECURSIVE Visits(_, _, _)
Visits(ctx, n, open) ==
  IF ctx.panicked THEN {}
  ELSE LET self == [ tag |-> IF n.type = "element" THEN n.data ELSE n.type,
                     before |-> ctx, after |-> walk(ctx, n), open |-> open ]
           descends == n.type = "document" \/ (n.type = "element" /\ Walks(ctx, n))
           inner == IF n.type = "element" THEN Enter(ctx, n) ELSE ctx
           open2 == IF OpensList(ctx, n) THEN open + 1 ELSE open
       IN {self} \cup
            IF descends
            THEN UNION { Visits(children(inner, n, i - 1), Kids(n)[i], open2) :
                           i \in 1..Len(Kids(n)) }
            ELSE {}

\* C29: throughout the walk listDepth is the length of the inOrderedList stack and
\* the number of list containers open on the path from the root; every list
\* container and every pre restores the state it changed when it returns, so that
\* at the end of the walk listDepth is 0, the stack is empty and inPre is false.
C29_RenderStateDiscipline ==
  rpc # "start" /\ rdoc # Unparseable =>
    LET start == NewContext(rcfg, <<>>)
    IN \A v \in Visits(start, rdoc, 0) :
         /\ v.before.listDepth = Len(v.before.inOrderedList)
         /\ v.before.listDepth = v.open
         /\ v.tag \in {"ul", "menu", "ol", "pre"} /\ ~v.after.panicked =>
              ListState(v.after) = ListState(v.before)
         /\ v.tag = "document" /\ ~v.after.panicked =>
              ListState(v.after) = [listDepth |-> 0, inOrderedList |-> <<>>, inPre |-> FALSE]

(***************************************************************************)
(* More claims about the cache, checked under SpecCache                    *)
(***************************************************************************)

\* the handler converts the answer of the request: ?gremllm, 200, text/html
Convertible(r) == r.gremllm /\ r.status = 200 /\ r.ctype = "text/html"

\* C24: the cache is written only after a successful conversion of a 200 text/html
\* response: a request with another status or content type is passed through with
\* its status and body, and it leaves the map and the insertion order as they
\* were, as does a request whose conversion returns an error.
C24_CacheWrittenAfterConversion ==
  [][\A p \in Procs :
       /\ (Moves(p) /\ (cache' # cache \/ cacheOrder' # cacheOrder)) =>
            converted[p] /\ Convertible(req[p])
       /\ (pc[p] = "idle" /\ req'[p] # req[p] /\ ~Convertible(req'[p])) =>
            /\ response'[p] = [status |-> req'[p].status, ctype |-> req'[p].ctype,
                               body |-> <<"raw", req'[p].body>>]
            /\ pc'[p] = "idle"
            /\ cache' = cache /\ cacheOrder' = cacheOrder
       /\ (response'[p] # response[p] /\ response'[p].status = 500) =>
            /\ ~converted[p]
            /\ cache' = cache /\ cacheOrder' = cacheOrder]_vars

\* C24's case: a 404 passed through, and an error answered with 500, by a cache
\* that holds entries
C24_Witness ==
  /\ DOMAIN cache # {}
  /\ \E p \in Procs :
       /\ pc[p] = "idle" /\ req[p].gremllm /\ req[p].status = 404
       /\ response[p] = [status |-> 404, ctype |-> "text/html", body |-> <<"raw", req[p].body>>]
  /\ \E q \in Procs : response[q].status = 500

\* C27: after any sequence and interleaving of requests, two misses of one digest
\* that both convert and both store included, the insertion order has no digest
\* twice and its elements are exactly the keys of the map.
C27_OrderMatchesMap ==
  (\A p \in Procs : ~InWrite(p)) =>
    /\ \A i \in 1..Len(cacheOrder) : \A j \in 1..Len(cacheOrder) :
         cacheOrder[i] = cacheOrder[j] => i = j
    /\ {cacheOrder[i] : i \in 1..Len(cacheOrder)} = DOMAIN cache

\* C27's case: both goroutines missed the same digest and converted; one has
\* stored, the other is about to store
C27_Witness ==
  \E p \in Procs : \E q \in Procs \ {p} :
    /\ pc[p] = "respond" /\ converted[p]
    /\ pc[q] = "lock" /\ converted[q]
    /\ cacheKey(p) = cacheKey(q) /\ cacheKey(p) \in DOMAIN cache

\* C28: in every reachable state the map has at most maxCacheSize entries, and
\* each store removes at most one entry.
C28_SizeBound ==
  [][Cardinality(DOMAIN cache) <= maxCacheSize
       /\ Cardinality(DOMAIN cache') <= maxCacheSize
       /\ Cardinality((DOMAIN cache) \ (DOMAIN cache')) <= 1]_vars

\* C28's case: a store into a full map has removed one entry
C28_Witness ==
  \E p \in Procs :
    /\ pc[p] = "unlock"
    /\ Cardinality(atLock.keys) = maxCacheSize
    /\ Cardinality(atLock.keys \ DOMAIN cache) = 1
    /\ Cardinality(DOMAIN cache) = maxCacheSize

(***************************************************************************)
(* The loops of fixFragmentedLists, checked under SpecCondense             *)
(***************************************************************************)

\* the index the outer loop of fixFragmentedLists has after the step it starts with i
LoopNext(lines, i) ==
  IF isStandaloneNumber(TrimSpace(lines[i]))
  THEN CollectParts(lines, SkipEmpty(lines, i + 1), <<>>).i
  ELSE i + 1

\* the indices the outer loop starts a step with, from i on; it ends with 0 if a
\* step does not advance the index
RECURSIVE LoopTrace(_, _)
LoopTrace(lines, i) ==
  IF i > Len(lines) THEN <<>>
  ELSE IF LoopNext(lines, i) <= i THEN <<i, 0>>
  ELSE <<i>> \o LoopTrace(lines, LoopNext(lines, i))

\* the lines that are not blank between i and j, each without white space around
Between(lines, i, j) ==
  LET ks == SelectSeq([k \in 1..Len(lines) |-> k],
                      LAMBDA k : i < k /\ k < j /\ TrimSpace(lines[k]) # <<>>)
  IN [m \in 1..Len(ks) |-> TrimSpace(lines[ks[m]])]

\* C26: fixFragmentedLists terminates and accounts for every line once: every step
\* of its loops advances the line index, and every line that is not blank is in
\* the output as its own line or as exactly one joined part of exactly one
\* repaired item; none is lost, none is there twice.
C26_EveryLineOnce ==
  cpc # "start" =>
    LET lines == removeNoiseLines(Split(ctext))
        out == fixFragmentedLists(lines)
        trace == LoopTrace(lines, 1)
    IN /\ \A m \in 1..Len(trace) : trace[m] # 0
       /\ Len(out) = Len(trace)
       /\ \A m \in 1..Len(trace) :
            trace[m] # 0 =>
              LET i == trace[m]
                  parts == Between(lines, i, LoopNext(lines, i))
              IN out[m] = IF parts = <<>> THEN lines[i]
                          ELSE TrimSpace(lines[i]) \o <<".", " ">>
                                 \o Join(parts, <<" ", "-", " ">>)

\* C26's case: a number line that took two lines as its parts, a blank line
\* between them left out
C26_Witness ==
  /\ cpc # "start"
  /\ ctext = <<"1", "\n", "a", "\n", "\n", "a">>
  /\ fixFragmentedLists(Split(ctext)) = << <<"1", ".", " ", "a", " ", "-", " ", "a">> >>

\* C25: the two-stage pipeline of the FFI export (ProcessHTML, then
\* HTMLToMarkdown on its serialized result) returns the same Markdown as
\* the single-pass HTMLToMarkdown, for every document that parses and
\* every StripConfig
C25_TwoStageEqualsFused ==
  (rpc = "exported" /\ rdoc # Unparseable /\ ~rcfg.RemoveImagesNoAlt) => rconv = rout

====
